---- MODULE Spec2Model ----
(***************************************************************************)
(* Model of the Housecall Pro booking automation (playwright_script.mjs    *)
(* and its earlier revisions): the task-queue builder, the tryClick        *)
(* resilient-locator primitive, the orchestration loop of main with the    *)
(* per-service drivers and finalizeThisService, and the date, time-window  *)
(* and state selection steps on bounded pages.                             *)
(***************************************************************************)
EXTENDS Integers, Sequences, FiniteSets, TLC

(***************************************************************************)
(* JavaScript values of the JSON payload.  Every value is a record of the  *)
(* same shape so that values of different types can be compared:           *)
(*   t = "undef" | "null" | "bool" | "num" | "str"                         *)
(* Strings are sequences of one-character strings.                         *)
(***************************************************************************)
Undef == [t |-> "undef", b |-> FALSE, n |-> 0, s |-> <<>>]
Null == [t |-> "null", b |-> FALSE, n |-> 0, s |-> <<>>]
Bool(x) == [t |-> "bool", b |-> x, n |-> 0, s |-> <<>>]
Num(x) == [t |-> "num", b |-> FALSE, n |-> x, s |-> <<>>]
Str(x) == [t |-> "str", b |-> FALSE, n |-> 0, s |-> x]

Digits == <<"0", "1", "2", "3", "4", "5", "6", "7", "8", "9">>
IsDigit(c) == \E d \in 1..10 : Digits[d] = c
DigitVal(c) == (CHOOSE d \in 1..10 : Digits[d] = c) - 1
IsSpace(c) == c = " "

\* Number-to-string of a non-negative integer (decimal digits).
RECURSIVE NatToStr(_)
NatToStr(n) == IF n < 10 THEN <<Digits[n + 1]>>
               ELSE NatToStr(n \div 10) \o <<Digits[(n % 10) + 1]>>
\* A number below 100 written with two digits.
Pad2(n) == IF n < 10 THEN <<"0">> \o NatToStr(n) ELSE NatToStr(n)

\* String(v)
JsString(v) ==
  CASE v.t = "undef" -> <<"u", "n", "d", "e", "f", "i", "n", "e", "d">>
    [] v.t = "null" -> <<"n", "u", "l", "l">>
    [] v.t = "bool" -> IF v.b THEN <<"t", "r", "u", "e">> ELSE <<"f", "a", "l", "s", "e">>
    [] v.t = "num" -> IF v.n < 0 THEN <<"-">> \o NatToStr(-v.n) ELSE NatToStr(v.n)
    [] v.t = "str" -> v.s

\* String.prototype.trim
RECURSIVE TrimLeft(_)
TrimLeft(s) == IF s # <<>> /\ IsSpace(Head(s)) THEN TrimLeft(Tail(s)) ELSE s
RECURSIVE TrimRight(_)
TrimRight(s) == IF s # <<>> /\ IsSpace(s[Len(s)]) THEN TrimRight(SubSeq(s, 1, Len(s) - 1)) ELSE s
Trim(s) == TrimRight(TrimLeft(s))

\* Length of the longest prefix of s made of decimal digits.
RECURSIVE DigitPrefixLen(_)
DigitPrefixLen(s) == IF s # <<>> /\ IsDigit(Head(s)) THEN 1 + DigitPrefixLen(Tail(s)) ELSE 0

\* Value of a sequence of decimal digits.
RECURSIVE DigitsVal(_)
DigitsVal(s) == IF s = <<>> THEN 0
                ELSE 10 * DigitsVal(SubSeq(s, 1, Len(s) - 1)) + DigitVal(s[Len(s)])

\* parseInt(s, 10): leading white space is skipped, an optional sign is read,
\* then the longest run of digits; with no digit the result is NaN.
parseInt(s) ==
  LET t == TrimLeft(s)
      neg == t # <<>> /\ Head(t) = "-"
      u == IF t # <<>> /\ Head(t) \in {"-", "+"} THEN Tail(t) ELSE t
      k == DigitPrefixLen(u)
  IN IF k = 0 THEN [nan |-> TRUE, n |-> 0]
     ELSE [nan |-> FALSE, n |-> IF neg THEN -DigitsVal(SubSeq(u, 1, k)) ELSE DigitsVal(SubSeq(u, 1, k))]

\* normInt(v): v == null (undefined or null) gives 0, else parseInt of the
\* trimmed string, kept only when finite and > 0.
normInt(v) ==
  IF v.t \in {"undef", "null"} THEN 0
  ELSE LET n == parseInt(Trim(JsString(v)))
       IN IF ~n.nan /\ n.n > 0 THEN n.n ELSE 0

\* JavaScript truthiness (ToBoolean).
Truthy(v) ==
  CASE v.t = "undef" -> FALSE
    [] v.t = "null" -> FALSE
    [] v.t = "bool" -> v.b
    [] v.t = "num" -> v.n # 0
    [] v.t = "str" -> v.s # <<>>

STrue == <<"T", "r", "u", "e">>
SFalse == <<"F", "a", "l", "s", "e">>

\* Number(x) for the values the model feeds it: a number is itself, a
\* boolean 0 or 1, a string its trimmed decimal integer ("" is 0) or NaN.
JsNumber(v) ==
  CASE v.t = "num" -> [nan |-> FALSE, n |-> v.n]
    [] v.t = "bool" -> [nan |-> FALSE, n |-> IF v.b THEN 1 ELSE 0]
    [] v.t = "null" -> [nan |-> FALSE, n |-> 0]
    [] v.t = "undef" -> [nan |-> TRUE, n |-> 0]
    [] v.t = "str" ->
         LET t == Trim(v.s)
             u == IF t # <<>> /\ Head(t) \in {"-", "+"} THEN Tail(t) ELSE t
         IN IF t = <<>> THEN [nan |-> FALSE, n |-> 0]
            ELSE IF u # <<>> /\ DigitPrefixLen(u) = Len(u)
                 THEN [nan |-> FALSE, n |-> IF Head(t) = "-" THEN -DigitsVal(u) ELSE DigitsVal(u)]
                 ELSE [nan |-> TRUE, n |-> 0]

(***************************************************************************)
(* The booking request and the task queue.                                 *)
(***************************************************************************)
FlagKeys == {"carpet_cleaning", "pet_stain", "upholstery", "carpet_stretching"}
\* Object.entries(map): the item keys in insertion order.
UpholsteryKeys == <<"love_seat", "couch", "recliner", "small_sectional",
                    "medium_sectional", "large_sectional">>
ItemKeySet == {UpholsteryKeys[k] : k \in 1..Len(UpholsteryKeys)}
ScheduleKeys == {"appointment_date", "time_frame_start"}
ContactKeys == {"first_name", "last_name", "phone", "email", "street_address", "city",
                "zipcode", "state"}
PayloadKeys == FlagKeys \cup ItemKeySet \cup {"bedrooms"} \cup ScheduleKeys \cup ContactKeys

\* The labels of the upholstery map of playwright_script.mjs.
UpholsteryLabel(key) ==
  CASE key = "love_seat" -> "Loveseat"
    [] key = "couch" -> "Couch"
    [] key = "recliner" -> "Recliner"
    [] key = "small_sectional" -> "Small Sectional"
    [] key = "medium_sectional" -> "Medium Sectional"
    [] key = "large_sectional" -> "Large Sectional"

\* The labels of the upholstery map of the earlier revisions.
UpholsteryLabelAlmost(key) ==
  IF key = "love_seat" THEN "Love Seat" ELSE UpholsteryLabel(key)

NoNumber == [nan |-> FALSE, n |-> 0]
Task(type, itemKey, label, qty, bedrooms) ==
  [type |-> type, itemKey |-> itemKey, label |-> label, qty |-> qty, bedrooms |-> bedrooms]

\* Number(p.bedrooms || 4)
BedroomsOf(p) == IF Truthy(p["bedrooms"]) THEN JsNumber(p["bedrooms"]) ELSE [nan |-> FALSE, n |-> 4]

\* A flag test of the earlier revisions: if (p.flag)
FlagEnabledAlmost(v) == Truthy(v)

\* The flag test of playwright_script.mjs: p.flag && (p.flag === true || p.flag === 'True')
FlagEnabled(v) == Truthy(v) /\ ((v.t = "bool" /\ v.b) \/ (v.t = "str" /\ v.s = STrue))

\* The upholstery loop with the filter qty >= 0 in place of qty > 0.
RECURSIVE UpholsteryTasksGe(_, _, _)
UpholsteryTasksGe(p, k, almost) ==
  IF k > Len(UpholsteryKeys) THEN <<>>
  ELSE LET key == UpholsteryKeys[k]
           qty == normInt(p[key])
           label == IF almost THEN UpholsteryLabelAlmost(key) ELSE UpholsteryLabel(key)
       IN (IF qty >= 0 THEN <<Task("upholstery", key, label, qty, NoNumber)>> ELSE <<>>)
          \o UpholsteryTasksGe(p, k + 1, almost)

\* The upholstery loop taken in reverse key order.
RECURSIVE UpholsteryTasksReversed(_, _, _)
UpholsteryTasksReversed(p, k, almost) ==
  IF k > Len(UpholsteryKeys) THEN <<>>
  ELSE LET key == UpholsteryKeys[k]
           qty == normInt(p[key])
           label == IF almost THEN UpholsteryLabelAlmost(key) ELSE UpholsteryLabel(key)
       IN UpholsteryTasksReversed(p, k + 1, almost)
          \o (IF qty > 0 THEN <<Task("upholstery", key, label, qty, NoNumber)>> ELSE <<>>)

\* for (const [key, label] of Object.entries(map)) { qty = normInt(p[key]); if (qty > 0) q.push(...) }
RECURSIVE UpholsteryTasks(_, _, _)
UpholsteryTasks(p, k, almost) ==
  IF k > Len(UpholsteryKeys) THEN <<>>
  ELSE LET key == UpholsteryKeys[k]
           qty == normInt(p[key])
           label == IF almost THEN UpholsteryLabelAlmost(key) ELSE UpholsteryLabel(key)
       IN (IF qty > 0 THEN <<Task("upholstery", key, label, qty, NoNumber)>> ELSE <<>>)
          \o UpholsteryTasks(p, k + 1, almost)

\* buildQueue of playwright_script.mjs
buildQueue(p) ==
  (IF FlagEnabled(p["carpet_cleaning"])
     THEN <<Task("carpet_cleaning", "", "", 0, BedroomsOf(p))>> ELSE <<>>)
  \o (IF FlagEnabled(p["pet_stain"]) THEN <<Task("pet_stain", "", "", 0, NoNumber)>> ELSE <<>>)
  \o (IF FlagEnabled(p["upholstery"]) THEN UpholsteryTasks(p, 1, FALSE) ELSE <<>>)
  \o (IF FlagEnabled(p["carpet_stretching"])
        THEN <<Task("carpet_stretching", "", "", 0, NoNumber)>> ELSE <<>>)

\* buildQueue of playwright_script-almost.mjs and of the other earlier revisions
buildQueueAlmost(p) ==
  (IF FlagEnabledAlmost(p["carpet_cleaning"])
     THEN <<Task("carpet_cleaning", "", "", 0, BedroomsOf(p))>> ELSE <<>>)
  \o (IF FlagEnabledAlmost(p["pet_stain"]) THEN <<Task("pet_stain", "", "", 0, NoNumber)>> ELSE <<>>)
  \o (IF FlagEnabledAlmost(p["upholstery"]) THEN UpholsteryTasks(p, 1, TRUE) ELSE <<>>)
  \o (IF FlagEnabledAlmost(p["carpet_stretching"])
        THEN <<Task("carpet_stretching", "", "", 0, NoNumber)>> ELSE <<>>)

(***************************************************************************)
(* tryClick: the resilient click over an ordered list of candidates.       *)
(* A candidate is [shape, count, click]: its shape is what the code tests  *)
(* (a string, an object with role, text or label, an object with none of   *)
(* them, or null), count is what loc.count() does on the page ("zero",     *)
(* "one" or "throws") and click what loc.click() does ("ok" or "fails").   *)
(***************************************************************************)
\* let loc; if (typeof v === 'string') ... else if (v.role) ... else if (v.text) ... else if (v.label) ...
\* A null candidate makes v.role throw a TypeError; an object with none of
\* the fields leaves loc undefined.
Locator(v) ==
  CASE v.shape = "string" -> "locator"
    [] v.shape = "role" -> "getByRole"
    [] v.shape = "text" -> "getByText"
    [] v.shape = "label" -> "getByLabel"
    [] v.shape = "empty" -> "undefined"
    [] v.shape = "null" -> "TypeError"

\* The record of one tryClick call: ret is "pending" while the loop runs,
\* then "true" or "false"; raised tells whether an exception left the call;
\* resolved, counted, clicks and clickOk list the candidate indices for which
\* a locator was built, count() was called, click() was called, click() succeeded.
TcStart == [ret |-> "pending", raised |-> FALSE, resolved |-> <<>>, counted |-> <<>>,
            clicks |-> <<>>, clickOk |-> <<>>]

\* One iteration that does not return after a successful click.
TryClickIterNoReturn(st, v, idx) ==
  IF Locator(v) \in {"TypeError", "undefined"} THEN st
  ELSE LET st1 == [st EXCEPT !.resolved = Append(@, idx), !.counted = Append(@, idx)]
       IN IF v.count # "one" THEN st1
          ELSE IF v.click = "ok"
               THEN [st1 EXCEPT !.clicks = Append(@, idx), !.clickOk = Append(@, idx)]
               ELSE [st1 EXCEPT !.clicks = Append(@, idx)]

\* One iteration without the try/catch around the click: a failed click leaves the call.
TryClickIterNoCatch(st, v, idx) ==
  IF Locator(v) \in {"TypeError", "undefined"} THEN st
  ELSE LET st1 == [st EXCEPT !.resolved = Append(@, idx), !.counted = Append(@, idx)]
       IN IF v.count # "one" THEN st1
          ELSE IF v.click = "ok"
               THEN [st1 EXCEPT !.clicks = Append(@, idx), !.clickOk = Append(@, idx), !.ret = "true"]
               ELSE [st1 EXCEPT !.clicks = Append(@, idx), !.raised = TRUE, !.ret = "thrown"]

\* One iteration of for (const v of variants) { try { ... } catch {} } on
\* candidate number idx.
TryClickIter(st, v, idx) ==
  IF Locator(v) = "TypeError" THEN st                      \* v.role throws; catch {}
  ELSE IF Locator(v) = "undefined" THEN st                 \* if (!loc) continue
  ELSE LET st1 == [st EXCEPT !.resolved = Append(@, idx), !.counted = Append(@, idx)]
       IN IF v.count = "throws" THEN st1                   \* catch {}
          ELSE IF v.count = "zero" THEN st1                \* continue
          ELSE IF v.click = "ok"                           \* scrollIntoViewIfNeeded, click, return true
               THEN [st1 EXCEPT !.clicks = Append(@, idx), !.clickOk = Append(@, idx), !.ret = "true"]
               ELSE [st1 EXCEPT !.clicks = Append(@, idx)] \* click throws; catch {}

\* The loop from candidate idx on; after the last candidate: return false.
RECURSIVE TryClickFrom(_, _, _)
TryClickFrom(vs, idx, st) ==
  IF st.ret # "pending" THEN st
  ELSE IF idx > Len(vs) THEN [st EXCEPT !.ret = "false"]
  ELSE TryClickFrom(vs, idx + 1, TryClickIter(st, vs[idx], idx))

\* tryClick(page, variants): the record of the whole call.
tryClick(vs) == TryClickFrom(vs, 1, TcStart)

(***************************************************************************)
(* Bounded input families.                                                 *)
(***************************************************************************)
MaxKeys == 3
MaxVariants == 4
MaxRunKeys == 3

FlagValues == {Bool(FALSE), Bool(TRUE), Str(STrue), Str(SFalse)}
QtyValues == {Null, Num(0), Num(-1), Num(2), Str(<<" ", "1", "2", "x">>), Str(<<"x">>)}
BedroomValues == {Num(3), Str(<<"2">>)}

Cand(shape, count, click) == [shape |-> shape, count |-> count, click |-> click]
\* The candidates the lists are drawn from: every outcome for a selector
\* string, and the other shapes with one or two outcomes each.
CandidateSet ==
  {Cand("string", "zero", "fails"), Cand("string", "throws", "fails"),
   Cand("string", "one", "ok"), Cand("string", "one", "fails"),
   Cand("role", "zero", "fails"), Cand("role", "one", "ok"),
   Cand("text", "throws", "fails"), Cand("label", "one", "fails"),
   Cand("empty", "zero", "fails"), Cand("null", "zero", "fails")}
VariantLists == UNION {[1..n -> CandidateSet] : n \in 0..MaxVariants}

\* What the page can do to a call of tryClick with candidates of the given
\* shapes: candidate k is the first that clicks (none when k = 0) and the
\* candidates before it all fail in the way f.
ClickOutcomes(shapes) ==
  {[j \in 1..Len(shapes) |->
      IF j = k THEN Cand(shapes[j], "one", "ok") ELSE Cand(shapes[j], f[1], f[2])] :
     k \in 0..Len(shapes), f \in {<<"zero", "fails">>, <<"throws", "fails">>, <<"one", "fails">>}}

\* The payloads of the runs: enabled families, quantities of two items,
\* bedrooms and the schedule fields, with at most MaxRunKeys of the family,
\* item and bedrooms keys present.
RunItemKeys == {"couch", "recliner"}
RunQtyValues == {Num(1), Num(2)}
RunBedroomValues == {Undef, Num(3)}
RunDateValues == {Undef, Str(<<"1", "2", "/", "2", "5", "/", "2", "0", "2", "5">>)}
RunTimeValues == {Undef, Str(<<"2", ":", "0", "0", " ", "P", "M">>)}

\* JSON.parse('{}'): no key present.
EmptyPayload == [k \in PayloadKeys |-> Undef]

\* The payloads with at most MaxKeys keys present: the flags F, the item
\* quantities I, bedrooms and the schedule fields take the values given.
PayloadOf(F, ff, I, fi, b, date, time) ==
  [k \in PayloadKeys |-> IF k \in F THEN ff[k]
                         ELSE IF k \in I THEN fi[k]
                         ELSE IF k = "bedrooms" THEN b
                         ELSE IF k = "appointment_date" THEN date
                         ELSE IF k = "time_frame_start" THEN time ELSE Undef]

(***************************************************************************)
(* State.                                                                  *)
(***************************************************************************)
VARIABLES
  payload,        \* the BookingRequest (JSON.parse of PAYLOAD_JSON)
  queue,          \* the task queue returned by buildQueue
  pc,             \* position of the flow of control
  variants,       \* tryClick: the candidate list of the call
  vi,             \* tryClick: number of the next candidate of the loop
  tc,             \* tryClick: the record of the call so far
  keepOpen,       \* KEEP_OPEN
  i,              \* main: the loop index
  isLast,         \* main: meta.isLast of the task under way
  added,          \* finalizeThisService: added ("unset" outside the call)
  booked,         \* finalizeThisService: booked ("unset" outside the call)
  calls,          \* the driver invocations made so far, in order
  trace,          \* the steps taken on the page so far: <<task number, step>>
  error,          \* the message of the exception thrown, "" when none
  exitCode,       \* process.exitCode
  contextClosed,  \* context.close() has been called
  browserClosed,  \* browser.close() has been called
  page,           \* what the page shows to the step under way: a list of labels
  clicked,        \* the position in page of the element clicked, 0 when none
  dt,             \* selectDate: dt, the result of parseMMDDYYYY
  strategyIndex,  \* clickBookAppointmentButtonWithFallbacks: strategyIndex
  strategyUsed,   \* the strategyUsed of the result returned, 0 when none
  script,         \* the revision whose code is running
  session,        \* main: the browser, context and page objects created so far
  active,         \* main: the tasks whose driver has been called and not yet awaited
  verified,       \* what verifySuccess returned ("unset" before it has)
  now,            \* waitForMainMenu: Date.now() - start
  ret,            \* setQty: the value returned ("unset" before it returns)
  body,           \* server.mjs: the body received so far, one per request
  child,          \* server.mjs: the child process spawned, one per request
  logs,           \* server.mjs runJob: logs, one per call
  res,            \* the response written, one per request ("none" before)
  env,            \* process.env of the HTTP process
  req,            \* the request under way (its headers)
  fetched         \* the requests sent to the runner so far

queueVars == <<payload, queue>>
clickVars == <<variants, vi, tc>>
runVars == <<keepOpen, i, isLast, added, booked, calls, trace, error, exitCode,
             contextClosed, browserClosed, strategyIndex, strategyUsed>>
pageVars == <<page, clicked, dt>>
bookVars == <<strategyIndex, strategyUsed>>
srvVars == <<body, child, logs, res, env, req, fetched>>
envVars == <<script, session, active, verified, now, ret, srvVars>>
vars == <<payload, queue, pc, variants, vi, tc, keepOpen, i, isLast, added, booked,
          calls, trace, error, exitCode, contextClosed, browserClosed, page, clicked, dt,
          strategyIndex, strategyUsed, script, session, active, verified,
          now, ret, body, child, logs, res, env, req, fetched>>

\* No tryClick call is under way.
ClickIdle == variants = <<>> /\ vi = 0 /\ tc = TcStart
\* No booking request is loaded.
QueueIdle == payload = EmptyPayload /\ queue = <<>>
\* main has not run: the state main starts from.
RunStart == /\ i = 0 /\ isLast = FALSE /\ added = "unset" /\ booked = "unset"
            /\ calls = <<>> /\ trace = <<>> /\ error = "" /\ exitCode = 0
            /\ contextClosed = FALSE /\ browserClosed = FALSE
            /\ strategyIndex = 0 /\ strategyUsed = 0
\* return null of parseMMDDYYYY; also the value of dt before selectDate runs.
NullDate == [null |-> TRUE, y |-> Undef, m |-> Undef, d |-> Undef]
\* No step that reads the page is under way.
PageIdle == page = <<>> /\ clicked = 0 /\ dt = NullDate
\* The revisions of the script.
Main == "playwright_script.mjs"
Almost == "playwright_script-almost.mjs"
Debug == "run-local-debug.mjs"
Remote == "unnamed/part_002"
\* No HTTP process is running.
SrvIdle == /\ body = <<>> /\ child = <<>> /\ logs = <<>> /\ res = <<>>
           /\ env = <<>> /\ req = <<>> /\ fetched = <<>>
\* playwright_script.mjs before main has created anything.
EnvIdle == /\ script = Main /\ session = <<>> /\ active = {}
           /\ verified = "unset" /\ now = 0 /\ ret = "unset" /\ SrvIdle

(***************************************************************************)
(* The queue builder applied to bounded payloads.                          *)
(***************************************************************************)
QInit == /\ \E F \in SUBSET FlagKeys, I \in SUBSET ItemKeySet, b \in BedroomValues \cup {Undef} :
              /\ Cardinality(F) + Cardinality(I) + (IF b = Undef THEN 0 ELSE 1) <= MaxKeys
              /\ \E ff \in [F -> FlagValues], fi \in [I -> QtyValues] :
                    payload = PayloadOf(F, ff, I, fi, b, Undef, Undef)
         /\ queue = <<>>
         /\ pc = "q_init"
         /\ ClickIdle
         /\ keepOpen = FALSE
         /\ RunStart
         /\ PageIdle
         /\ EnvIdle

\* buildQueue(payload) of playwright_script.mjs
QBuildMain == /\ pc = "q_init"
              /\ queue' = buildQueue(payload)
              /\ pc' = "q_main"
              /\ UNCHANGED <<payload, clickVars, pageVars, envVars, bookVars, runVars>>

\* buildQueue(payload) of the earlier revisions
QBuildAlmost == /\ pc = "q_init"
                /\ queue' = buildQueueAlmost(payload)
                /\ pc' = "q_almost"
                /\ UNCHANGED <<payload, clickVars, pageVars, envVars, bookVars, runVars>>

QNext == QBuildMain \/ QBuildAlmost
SpecQueue == QInit /\ [][QNext]_vars

(***************************************************************************)
(* One tryClick call run candidate by candidate.                           *)
(***************************************************************************)
TCInit == /\ variants \in VariantLists
          /\ vi = 1
          /\ tc = TcStart
          /\ pc = "tc_loop"
          /\ QueueIdle
          /\ keepOpen = FALSE
          /\ RunStart
          /\ PageIdle
          /\ EnvIdle

\* One pass of the for loop over variants.
TCIterate == /\ pc = "tc_loop"
             /\ vi <= Len(variants)
             /\ tc' = TryClickIter(tc, variants[vi], vi)
             /\ vi' = vi + 1
             /\ pc' = IF tc'.ret = "pending" THEN "tc_loop" ELSE "tc_done"
             /\ UNCHANGED <<queueVars, pageVars, envVars, variants, runVars>>

\* The loop is exhausted: return false.
TCReturnFalse == /\ pc = "tc_loop"
                 /\ vi > Len(variants)
                 /\ tc' = [tc EXCEPT !.ret = "false"]
                 /\ pc' = "tc_done"
                 /\ UNCHANGED <<queueVars, pageVars, envVars, variants, vi, runVars>>

TCNext == TCIterate \/ TCReturnFalse
SpecClick == TCInit /\ [][TCNext]_vars

(***************************************************************************)
(* The candidate lists of the call sites of tryClick, by shape.            *)
(***************************************************************************)
AddToBookingShapes == <<"role", "role", "text", "string", "string", "string", "string">>
BookServiceShapes == <<"role", "text", "role", "role", "role", "role", "text",
                       "string", "string", "string", "string", "string">>
ServiceTileShapes == <<"string", "string", "string", "string", "string", "string", "string">>
BedroomShapes == <<"text", "role", "string", "string">>
UpholsteryItemShapes == <<"role", "text", "string", "string", "string", "text",
                          "string", "string", "string">>
RoleText == <<"role", "text">>
RoleOnly == <<"role">>
TextOnly == <<"text">>
StringOnly == <<"string">>
TwoStrings == <<"string", "string">>

\* The values tryClick can return at a call site.
ClickResults(shapes) == {tryClick(vs).ret : vs \in ClickOutcomes(shapes)}
\* a || b for the results of two calls, the second made only when the first failed.
OrElse(r1, r2) == IF r1 = "true" THEN "true" ELSE r2
\* page.goBack(...).then(() => true).catch(() => false) and keyboard.press likewise
PromiseResults == {"true", "false"}

(***************************************************************************)
(* main and the drivers, one action per awaited step.                      *)
(***************************************************************************)
Item == queue[i + 1]
Emit(tag) == trace' = Append(trace, <<i + 1, tag>>)
\* An exception that is logged and after which the loop takes the next task.
ThrowContinuing(msg) == pc' = "after_task" /\ error' = msg

\* An exception leaves the driver and reaches the catch of main.
Throw(msg) == pc' = "catch" /\ error' = msg

RunInit ==
  /\ \E F \in SUBSET FlagKeys, I \in SUBSET RunItemKeys, b \in RunBedroomValues,
        date \in RunDateValues, time \in RunTimeValues :
       /\ Cardinality(F) + Cardinality(I) + (IF b = Undef THEN 0 ELSE 1) <= MaxRunKeys
       /\ \E fi \in [I -> RunQtyValues] :
            payload = PayloadOf(F, [k \in F |-> Bool(TRUE)], I, fi, b, date, time)
  /\ queue = <<>>
  /\ keepOpen \in BOOLEAN
  /\ pc = "launch"
  /\ ClickIdle
  /\ RunStart
  /\ PageIdle
  /\ EnvIdle

\* const browser = await chromium.launch({ ... })
Launch ==
  /\ pc = "launch"
  /\ session' = Append(session, "browser")
  /\ pc' = "context"
  /\ UNCHANGED <<queueVars, clickVars, pageVars, bookVars, srvVars, script, active, verified, now, ret,
                 keepOpen, i, isLast, added, booked, calls, trace, error, exitCode,
                 contextClosed, browserClosed>>

\* const context = await browser.newContext({ ... }); await context.addInitScript(...)
NewContext ==
  /\ pc = "context"
  /\ session' = Append(session, "context")
  /\ pc' = "page"
  /\ UNCHANGED <<queueVars, clickVars, pageVars, bookVars, srvVars, script, active, verified, now, ret,
                 keepOpen, i, isLast, added, booked, calls, trace, error, exitCode,
                 contextClosed, browserClosed>>

\* const page = await context.newPage()
NewPage ==
  /\ pc = "page"
  /\ session' = Append(session, "page")
  /\ pc' = "goto"
  /\ UNCHANGED <<queueVars, clickVars, pageVars, bookVars, srvVars, script, active, verified, now, ret,
                 keepOpen, i, isLast, added, booked, calls, trace, error, exitCode,
                 contextClosed, browserClosed>>

\* await page.goto(START_URL, ...); waitIdle; randomDelay
Goto ==
  /\ pc = "goto"
  /\ \/ pc' = "build" /\ UNCHANGED error
     \/ Throw("page.goto")
  /\ UNCHANGED <<queueVars, clickVars, pageVars, envVars, bookVars, keepOpen, i, isLast, added, booked, calls, trace,
                 exitCode, contextClosed, browserClosed>>

\* const queue = buildQueue(payload); for (let i = 0; ...
BuildQueueStep ==
  /\ pc = "build"
  /\ queue' = buildQueue(payload)
  /\ i' = 0
  /\ pc' = "loop"
  /\ UNCHANGED <<payload, clickVars, pageVars, envVars, bookVars, keepOpen, isLast, added, booked, calls, trace, error,
                 exitCode, contextClosed, browserClosed>>

\* A driver called without await: main goes on while the driver is under way.
NotAwaited(drivers, task) == drivers

\* await handleX(...): main goes on when the driver of the task has returned.
Await(drivers, task) == drivers \ {task}

\* meta.isLast taken one position too late.
IsLastOffByOne(idx, q) == idx = Len(q)

\* const meta = { isLast: i === queue.length - 1 }
IsLastOf(idx, q) == idx = Len(q) - 1

\* The loop test i < queue.length and, inside, item = queue[i],
\* meta = { isLast: i === queue.length - 1 } and the dispatch on item.type.
LoopTest ==
  /\ pc = "loop"
  /\ IF i < Len(queue)
     THEN /\ isLast' = IsLastOf(i, queue)
          /\ IF Item.type \in {"carpet_cleaning", "pet_stain", "upholstery", "carpet_stretching"}
             THEN /\ calls' = Append(calls, [task |-> i + 1, type |-> Item.type,
                                            isLast |-> IsLastOf(i, queue)])
                  /\ active' = active \cup {i + 1}
                  /\ pc' = "menu"
             ELSE /\ pc' = "after_task"       \* warn('Unknown task type')
                  /\ UNCHANGED <<calls, active>>
     ELSE /\ pc' = "teardown"
          /\ UNCHANGED <<isLast, calls, active>>
  /\ UNCHANGED <<queueVars, clickVars, pageVars, bookVars, srvVars, script, session, verified, now, ret,
                 keepOpen, i, added, booked, trace, error, exitCode, contextClosed,
                 browserClosed>>

\* clickService: await waitForMainMenu(page)
WaitForMainMenu ==
  /\ pc = "menu"
  /\ Emit("main-menu")
  /\ \/ pc' = "tile" /\ UNCHANGED error
     \/ Throw("Service menu did not render.")
  /\ UNCHANGED <<queueVars, clickVars, pageVars, envVars, bookVars, keepOpen, i, isLast, added, booked, calls,
                 exitCode, contextClosed, browserClosed>>

\* clickService: the loop over the candidate locators of the service tile
ClickServiceTile ==
  /\ pc = "tile"
  /\ Emit("service")
  /\ \E r \in ClickResults(ServiceTileShapes) :
       IF r = "true" THEN pc' = "custom" /\ UNCHANGED error
       ELSE Throw("Service button not found")
  /\ UNCHANGED <<queueVars, clickVars, pageVars, envVars, bookVars, keepOpen, i, isLast, added, booked, calls,
                 exitCode, contextClosed, browserClosed>>

\* handleCarpetCleaning: the bedrooms option, fatal when it cannot be clicked
PickBedrooms ==
  /\ pc = "custom" /\ Item.type = "carpet_cleaning"
  /\ Emit("bedrooms")
  /\ \E picked \in ClickResults(BedroomShapes) :
       IF picked = "true" THEN pc' = "drawer1" /\ UNCHANGED error
       ELSE Throw("Could not click bedrooms option.")
  /\ UNCHANGED <<queueVars, clickVars, pageVars, envVars, bookVars, keepOpen, i, isLast, added, booked, calls,
                 exitCode, contextClosed, browserClosed>>

\* handlePetStain: the add-on, four tryClick calls joined by ||, not fatal
PickPetStainAddon ==
  /\ pc = "custom" /\ Item.type = "pet_stain"
  /\ Emit("ps-add")
  /\ \E r1 \in ClickResults(RoleOnly), r2 \in ClickResults(TextOnly),
        r3 \in ClickResults(RoleText), r4 \in ClickResults(StringOnly) :
       OrElse(r1, OrElse(r2, OrElse(r3, r4))) \in {"true", "false"}
  /\ pc' = "drawer1"
  /\ UNCHANGED <<queueVars, clickVars, pageVars, envVars, bookVars, keepOpen, i, isLast, added, booked, calls, error,
                 exitCode, contextClosed, browserClosed>>

\* handleUpholstery: the catalog item, fatal when it cannot be clicked;
\* setQty follows when qty > 1
PickUpholsteryItem ==
  /\ pc = "custom" /\ Item.type = "upholstery"
  /\ Emit("upholstery-item")
  /\ \E picked \in ClickResults(UpholsteryItemShapes) :
       IF picked = "true"
       THEN pc' = (IF Item.qty > 1 THEN "qty" ELSE "drawer1") /\ UNCHANGED error
       ELSE Throw("Failed to select upholstery item")
  /\ UNCHANGED <<queueVars, clickVars, pageVars, envVars, bookVars, keepOpen, i, isLast, added, booked, calls,
                 exitCode, contextClosed, browserClosed>>

\* handleUpholstery: await setQty(page, qty), not fatal
SetQty ==
  /\ pc = "qty"
  /\ Emit("set-qty")
  /\ pc' = "drawer1"
  /\ UNCHANGED <<queueVars, clickVars, pageVars, envVars, bookVars, keepOpen, i, isLast, added, booked, calls, error,
                 exitCode, contextClosed, browserClosed>>

\* handleCarpetStretching: two tryClick calls joined by ||, not fatal
PickCarpetStretching ==
  /\ pc = "custom" /\ Item.type = "carpet_stretching"
  /\ Emit("stretch")
  /\ \E r1 \in ClickResults(RoleOnly), r2 \in ClickResults(TextOnly) :
       OrElse(r1, r2) \in {"true", "false"}
  /\ pc' = "drawer1"
  /\ UNCHANGED <<queueVars, clickVars, pageVars, envVars, bookVars, keepOpen, i, isLast, added, booked, calls, error,
                 exitCode, contextClosed, browserClosed>>

\* closeCartDrawerIfOpen: three tryClick calls and the Escape key joined by ||
CloseCartDrawer(from, to) ==
  /\ pc = from
  /\ Emit("drawer-close")
  /\ \E r1 \in ClickResults(RoleOnly), r2 \in ClickResults(TwoStrings),
        r3 \in ClickResults(TextOnly), r4 \in PromiseResults :
       OrElse(r1, OrElse(r2, OrElse(r3, r4))) \in {"true", "false"}
  /\ pc' = to
  /\ UNCHANGED <<queueVars, clickVars, pageVars, envVars, bookVars, keepOpen, i, isLast, added, booked, calls, error,
                 exitCode, contextClosed, browserClosed>>

\* finalizeThisService: await closeCartDrawerIfOpen(page) on entry
CloseCartDrawerFirst == CloseCartDrawer("drawer1", "add")

\* finalizeThisService: const added = await tryClick(page, addToBookingSelectors, 'add-to-booking')
AddToBooking ==
  /\ pc = "add"
  /\ Emit("add-to-booking")
  /\ added' \in ClickResults(AddToBookingShapes)
  /\ pc' = "drawer2"
  /\ UNCHANGED <<queueVars, clickVars, pageVars, envVars, bookVars, keepOpen, i, isLast, booked, calls, error,
                 exitCode, contextClosed, browserClosed>>

\* finalizeThisService: await closeCartDrawerIfOpen(page) after 'Add to booking'
CloseCartDrawerSecond == CloseCartDrawer("drawer2", "book")

\* The step after a successful Book Service click when 'Add to booking'
\* is required to have been clicked.
AfterBookRequiringAdded(wasAdded, last) ==
  IF wasAdded # "true" THEN "catch" ELSE IF last THEN "fill" ELSE "back"

\* The step after a successful Book Service click with the isLast test inverted.
AfterBookInverted(wasAdded, last) == IF last THEN "back" ELSE "fill"

\* finalizeThisService: after a successful Book Service click, if (!isLast)
\* the loop-back steps, else the checkout steps; added plays no part.
AfterBook(wasAdded, last) == IF last THEN "fill" ELSE "back"

\* The outcome of the Book Service step when a failed click is only logged.
BookFailureTolerated(wasAdded, last) == AfterBook(wasAdded, last)

\* finalizeThisService: if (!booked) { ... throw new Error('Could not reach contact details ...') }
BookFailure(wasAdded, last) == "catch"

BookServiceError == "Could not reach contact details after adding a service. Check if service was properly selected."

\* finalizeThisService: const booked = await tryClick(page, bookServiceSelectors, 'book-service')
BookService ==
  /\ pc = "book"
  /\ Emit("book-service")
  /\ booked' \in ClickResults(BookServiceShapes)
  /\ pc' = IF booked' = "true" THEN AfterBook(added, isLast) ELSE BookFailure(added, isLast)
  /\ error' = IF pc' = "catch" THEN BookServiceError ELSE error
  /\ UNCHANGED <<queueVars, clickVars, pageVars, envVars, bookVars, keepOpen, i, isLast, added, calls,
                 exitCode, contextClosed, browserClosed>>

\* finalizeThisService, not last: Back, by two tryClick calls or page.goBack
ContactsBack ==
  /\ pc = "back"
  /\ Emit("contacts-back")
  /\ \E r1 \in ClickResults(RoleText), r2 \in ClickResults(RoleOnly), r3 \in PromiseResults :
       OrElse(r1, OrElse(r2, r3)) \in {"true", "false"}
  /\ pc' = "more"
  /\ UNCHANGED <<queueVars, clickVars, pageVars, envVars, bookVars, keepOpen, i, isLast, added, booked, calls, error,
                 exitCode, contextClosed, browserClosed>>

\* finalizeThisService, not last: 'Add more services', then return
AddMoreServices ==
  /\ pc = "more"
  /\ Emit("add-more")
  /\ \E r1 \in ClickResults(RoleText), r2 \in ClickResults(RoleOnly) :
       OrElse(r1, r2) \in {"true", "false"}
  /\ pc' = "after_task"
  /\ UNCHANGED <<queueVars, clickVars, pageVars, envVars, bookVars, keepOpen, i, isLast, added, booked, calls, error,
                 exitCode, contextClosed, browserClosed>>

\* finalizeThisService, last: await fillContactDetails(page, payload); a
\* fill of a missing field times out and throws
FillContactDetails ==
  /\ pc = "fill"
  /\ Emit("contact-fill")
  /\ \/ pc' = "submit" /\ UNCHANGED error
     \/ Throw("fillContactDetails")
  /\ UNCHANGED <<queueVars, clickVars, pageVars, envVars, bookVars, keepOpen, i, isLast, added, booked, calls,
                 exitCode, contextClosed, browserClosed>>

\* A finalizeThisService that goes on to the schedule page whether or not
\* the contact form was submitted.
AfterSubmitTolerant(submitted) == "date"

\* finalizeThisService: if (!submitted) { ...; throw new Error('Could not
\* submit contact details.') }
AfterSubmit(submitted) == IF submitted = "true" THEN "date" ELSE "catch"

\* finalizeThisService, last: const submitted = tryClick(Submit) || tryClick(Continue/Next)
SubmitContact ==
  /\ pc = "submit"
  /\ \E r1 \in ClickResults(RoleText), r2 \in ClickResults(RoleText) :
       LET submitted == OrElse(r1, r2)
       IN /\ trace' = Append(trace, <<i + 1, "contacts-submit", submitted>>)
          /\ pc' = AfterSubmit(submitted)
  /\ error' = IF pc' = "catch" THEN "Could not submit contact details." ELSE error
  /\ UNCHANGED <<queueVars, clickVars, pageVars, envVars, bookVars, keepOpen, i, isLast, added, booked, calls,
                 exitCode, contextClosed, browserClosed>>

\* finalizeThisService, last: if (payload.appointment_date) await selectDate(...)
SelectDate ==
  /\ pc = "date"
  /\ IF Truthy(payload["appointment_date"]) THEN Emit("calendar-day") ELSE UNCHANGED trace
  /\ pc' = "time"
  /\ UNCHANGED <<queueVars, clickVars, pageVars, envVars, bookVars, keepOpen, i, isLast, added, booked, calls, error,
                 exitCode, contextClosed, browserClosed>>

\* finalizeThisService, last: if (payload.time_frame_start) await selectTimeFrame(...)
SelectTimeFrame ==
  /\ pc = "time"
  /\ IF Truthy(payload["time_frame_start"]) THEN Emit("timeframe") ELSE UNCHANGED trace
  /\ pc' = "next"
  /\ UNCHANGED <<queueVars, clickVars, pageVars, envVars, bookVars, keepOpen, i, isLast, added, booked, calls, error,
                 exitCode, contextClosed, browserClosed>>

\* finalizeThisService, last: Next on the schedule page, not fatal
ScheduleNext ==
  /\ pc = "next"
  /\ Emit("schedule-next")
  /\ \E r \in ClickResults(RoleText) : r \in {"true", "false"}
  /\ pc' = "final"
  /\ UNCHANGED <<queueVars, clickVars, pageVars, envVars, bookVars, keepOpen, i, isLast, added, booked, calls, error,
                 exitCode, contextClosed, browserClosed>>

\* finalizeThisService, last: clickBookAppointmentButtonWithFallbacks is
\* entered; its page setup can throw 'Setup failed', which finalizeThisService
\* rethrows as 'Final booking failed'.
FinalBook ==
  /\ pc = "final"
  /\ Emit("final-book")
  /\ \/ pc' = "strategy" /\ UNCHANGED error
     \/ Throw("Final booking failed")
  /\ UNCHANGED <<queueVars, clickVars, pageVars, envVars, bookVars, keepOpen, i, isLast, added, booked,
                 calls, exitCode, contextClosed, browserClosed>>

\* const strategies = [ ... ]: the number of strategies declared
NumStrategies == 13
\* What a strategy can do: throw, run without the success check holding
\* afterwards, or run with the success check holding.
StrategyOutcomes == {"throws", "no-effect", "success"}

\* A loop that goes on to the next strategy whatever the success check says.
ReturnsNever(outcome) == FALSE

\* if (success) { ...; return { success: true, strategyUsed: strategyIndex, ... } }
Returns(outcome) == outcome = "success"

\* One pass of for (const strategy of strategies) { try { strategyIndex++;
\* await strategy(); ... checkClickSuccess ... } catch (error) { ... } }
RunStrategy ==
  /\ pc = "strategy"
  /\ strategyIndex < NumStrategies
  /\ strategyIndex' = strategyIndex + 1
  /\ \E outcome \in StrategyOutcomes :
       /\ trace' = Append(trace, <<i + 1, "strategy", strategyIndex + 1,
                                   IF outcome = "success" THEN "success" ELSE "failed">>)
       /\ IF Returns(outcome)
          THEN strategyUsed' = strategyIndex + 1 /\ pc' = "verify"
          ELSE UNCHANGED <<strategyUsed, pc>>
  /\ UNCHANGED <<queueVars, clickVars, pageVars, envVars, keepOpen, i, isLast, added, booked, calls,
                 error, exitCode, contextClosed, browserClosed>>

\* After the loop: throw new Error(`All ${strategies.length} strategies
\* failed...`), rethrown by finalizeThisService as 'Final booking failed'.
AllStrategiesFailed ==
  /\ pc = "strategy"
  /\ strategyIndex = NumStrategies
  /\ Throw("Final booking failed")
  /\ UNCHANGED <<queueVars, clickVars, pageVars, envVars, bookVars, keepOpen, i, isLast, added, booked,
                 calls, trace, exitCode, contextClosed, browserClosed>>

\* The values of successFound: the tag of the indicator that won
\* Promise.race, 'timeout' of the 20 s fallback, 'none' of .catch(() => 'none').
SuccessIndicators == {"thank-you", "booking-successful", "confirmation",
                      "email-confirmation", "title-change", "url-change"}
SuccessFound == SuccessIndicators \cup {"timeout", "none"}

\* verifySuccess(page): true when an indicator won the race; otherwise the
\* page is inspected (page.url, page.title, page.evaluate) and false is
\* returned, also from the catch when the inspection throws.
verifySuccess(successFound, inspection) ==
  IF successFound # "none" /\ successFound # "timeout" THEN "true"
  ELSE IF inspection = "throws" THEN "false"      \* catch (e) { ...; return false }
  ELSE "false"

\* A caller that aborts the run when the verification returned false.
AfterVerifyAborting(result) == IF result = "true" THEN "after_task" ELSE "catch"

\* finalizeThisService: await verifySuccess(page); } - the value is dropped
\* and the driver returns.
AfterVerify(result) == "after_task"

\* finalizeThisService, last: await verifySuccess(page)
VerifySuccess ==
  /\ pc = "verify"
  /\ Emit("verify")
  /\ \E successFound \in SuccessFound, inspection \in {"ok", "throws"} :
       verified' = verifySuccess(successFound, inspection)
  /\ pc' = AfterVerify(verified')
  /\ UNCHANGED <<queueVars, clickVars, pageVars, bookVars, srvVars, script, session, active, ret, now, keepOpen, i, isLast,
                 added, booked, calls, error, exitCode, contextClosed, browserClosed>>

\* The loop that drops the head of the queue after each task.
AfterTaskShifting ==
  /\ pc = "after_task"
  /\ queue' = Tail(queue)
  /\ added' = "unset" /\ booked' = "unset"
  /\ pc' = "loop"
  /\ UNCHANGED <<payload, clickVars, pageVars, envVars, bookVars, keepOpen, i, isLast, calls, trace, error,
                 exitCode, contextClosed, browserClosed>>

\* The driver has returned: waitIdle, randomDelay, i++
AfterTask ==
  /\ pc = "after_task"
  /\ i' = i + 1
  /\ added' = "unset" /\ booked' = "unset"
  /\ active' = Await(active, i + 1)
  /\ pc' = "loop"
  /\ UNCHANGED <<queueVars, clickVars, pageVars, bookVars, srvVars, script, session, verified, now, ret,
                 keepOpen, isLast, calls, trace, error, exitCode, contextClosed, browserClosed>>

\* 'All tasks processed.': if (!KEEP_OPEN) { await context.close(); await browser.close(); }
\* contextClosed and browserClosed record that close() has been called.
\* Either close can reject, which the catch of main receives.
Teardown ==
  /\ pc = "teardown"
  /\ IF keepOpen
     THEN pc' = "done" /\ UNCHANGED <<error, contextClosed, browserClosed>>
     ELSE \/ /\ contextClosed' = TRUE /\ browserClosed' = TRUE
             /\ pc' = "done" /\ UNCHANGED error
          \/ /\ contextClosed' = TRUE /\ Throw("context.close") /\ UNCHANGED browserClosed
          \/ /\ contextClosed' = TRUE /\ browserClosed' = TRUE /\ Throw("browser.close")
  /\ UNCHANGED <<queueVars, clickVars, pageVars, envVars, bookVars, keepOpen, i, isLast, added, booked, calls, trace, exitCode>>

ScreenshotTags == {"error-screenshot", "error-screenshot-failed"}

\* A failed screenshot that ends the handler.
AfterScreenshotFatal(shot) == IF shot = "true" THEN "catch_close" ELSE "done"

\* catch (e): try { await page.screenshot(...) } catch {} - the handler
\* goes on whatever the screenshot did.
AfterScreenshot(shot) == "catch_close"

\* catch (e): errLog('fatal', e) and the error screenshot inside try/catch
ErrorScreenshot ==
  /\ pc = "catch"
  /\ \E shot \in PromiseResults :
       /\ trace' = Append(trace, <<0, IF shot = "true" THEN "error-screenshot"
                                      ELSE "error-screenshot-failed">>)
       /\ pc' = AfterScreenshot(shot)
  /\ active' = {}                      \* the driver has thrown: it is over
  /\ UNCHANGED <<queueVars, clickVars, pageVars, bookVars, srvVars, script, session, verified, now, ret,
                 keepOpen, i, isLast, added, booked, calls, error, exitCode, contextClosed,
                 browserClosed>>

\* An error handler that leaves the session open.
CloseOnErrorNever(keep) == FALSE

\* catch (e): if (!KEEP_OPEN) { context.close().catch(...); browser.close().catch(...) }
CloseOnError(keep) == ~keep

\* catch (e): the two closes, whose rejections are swallowed, unless
\* KEEP_OPEN; process.exitCode = 1
CatchTeardown ==
  /\ pc = "catch_close"
  /\ IF CloseOnError(keepOpen)
     THEN contextClosed' = TRUE /\ browserClosed' = TRUE
     ELSE UNCHANGED <<contextClosed, browserClosed>>
  /\ exitCode' = 1
  /\ pc' = "done"
  /\ UNCHANGED <<queueVars, clickVars, pageVars, envVars, bookVars, keepOpen, i, isLast, added, booked, calls, trace, error>>

Next ==
  \/ Launch \/ NewContext \/ NewPage
  \/ Goto \/ BuildQueueStep \/ LoopTest
  \/ WaitForMainMenu \/ ClickServiceTile
  \/ PickBedrooms \/ PickPetStainAddon \/ PickUpholsteryItem \/ SetQty \/ PickCarpetStretching
  \/ CloseCartDrawerFirst \/ AddToBooking \/ CloseCartDrawerSecond \/ BookService
  \/ ContactsBack \/ AddMoreServices
  \/ FillContactDetails \/ SubmitContact \/ SelectDate \/ SelectTimeFrame \/ ScheduleNext
  \/ FinalBook \/ RunStrategy \/ AllStrategiesFailed \/ VerifySuccess
  \/ AfterTask \/ Teardown \/ ErrorScreenshot \/ CatchTeardown

Init == RunInit
Spec == Init /\ [][Next]_vars

(***************************************************************************)
(* Claims about the queue builder.                                         *)
(***************************************************************************)
QueueBuilt == pc \in {"q_main", "q_almost"}

\* Position of a task in the family order: carpet_cleaning, pet_stain, the
\* upholstery items in the order love_seat .. large_sectional, carpet_stretching.
FamilyRank(task) ==
  CASE task.type = "carpet_cleaning" -> 1
    [] task.type = "pet_stain" -> 2
    [] task.type = "upholstery" ->
         2 + (CHOOSE k \in 1..Len(UpholsteryKeys) : UpholsteryKeys[k] = task.itemKey)
    [] task.type = "carpet_stretching" -> 3 + Len(UpholsteryKeys)

\* C3: buildQueue returns its tasks in the family order carpet_cleaning,
\* pet_stain, upholstery items in the fixed key order, carpet_stretching: the
\* ranks of the tasks strictly increase along the queue, so no later family
\* precedes an earlier one and no family or item key occurs twice.
C3_FamilyOrder ==
  QueueBuilt =>
    \A a, b \in 1..Len(queue) : a < b => FamilyRank(queue[a]) < FamilyRank(queue[b])

\* C3 witness: a queue of two upholstery items has been built.
C3_Witness ==
  /\ pc = "q_main"
  /\ Len(queue) = 2
  /\ queue[1].type = "upholstery" /\ queue[2].type = "upholstery"

\* The digits that open the text s once leading blanks and one sign are
\* skipped, and whether the sign is a minus.
SkipBlanks(s) == LET k == CHOOSE j \in 0..Len(s) :
                             /\ \A m \in 1..j : s[m] = " "
                             /\ (j = Len(s) \/ s[j + 1] # " ")
                 IN SubSeq(s, k + 1, Len(s))
Unsigned(s) == IF s # <<>> /\ s[1] \in {"+", "-"} THEN SubSeq(s, 2, Len(s)) ELSE s
LeadingDigits(s) == LET u == Unsigned(SkipBlanks(s))
                        k == CHOOSE j \in 0..Len(u) :
                               /\ \A m \in 1..j : IsDigit(u[m])
                               /\ (j = Len(u) \/ ~IsDigit(u[j + 1]))
                    IN SubSeq(u, 1, k)
IsMinus(s) == LET t == SkipBlanks(s) IN t # <<>> /\ t[1] = "-"

\* The integer a payload quantity stands for, 0 when it stands for none:
\* missing, null and texts that open with no digit stand for none.
QuantityMeant(v) ==
  CASE v.t \in {"undef", "null", "bool"} -> 0
    [] v.t = "num" -> v.n
    [] v.t = "str" -> IF LeadingDigits(v.s) = <<>> THEN 0
                      ELSE IF IsMinus(v.s) THEN -DigitsVal(LeadingDigits(v.s))
                      ELSE DigitsVal(LeadingDigits(v.s))

UpholsteryOn ==
  \/ pc = "q_main" /\ FlagEnabled(payload["upholstery"])
  \/ pc = "q_almost" /\ FlagEnabledAlmost(payload["upholstery"])

\* C4: with upholstery enabled, an item key has a task if and only if its
\* payload quantity parses as an integer > 0 (missing, null, 0, negative and
\* non-numeric quantities give none), and every upholstery task carries that
\* integer, which is >= 1.
C4_QuantityFilter ==
  UpholsteryOn =>
    /\ \A key \in ItemKeySet :
         (\E a \in 1..Len(queue) : queue[a].type = "upholstery" /\ queue[a].itemKey = key)
           <=> QuantityMeant(payload[key]) > 0
    /\ \A a \in 1..Len(queue) :
         queue[a].type = "upholstery" =>
           /\ queue[a].qty >= 1
           /\ queue[a].qty = QuantityMeant(payload[queue[a].itemKey])

\* C4 witness: upholstery is enabled, one item has a text quantity that
\* parses to 12 and produced a task, another a quantity that produced none.
C4_Witness ==
  /\ pc = "q_main" /\ FlagEnabled(payload["upholstery"])
  /\ Len(queue) = 1 /\ queue[1].type = "upholstery" /\ queue[1].qty = 12
  /\ \E key \in ItemKeySet : payload[key] \in {Num(0), Num(-1), Str(<<"x">>), Null}

FlagDisabled(v) == v = Undef \/ v = Bool(FALSE) \/ v = Str(SFalse)

\* The payload flag that governs a task.
FlagOf(task) == task.type

\* C5: buildQueue adds no task for a family whose flag is missing, false or
\* the string 'False'.
C5_NoTaskForDisabledFamily ==
  QueueBuilt =>
    \A a \in 1..Len(queue) : ~FlagDisabled(payload[FlagOf(queue[a])])

\* C5 for playwright_script.mjs alone, where it holds.
C5_MainOnly ==
  pc = "q_main" =>
    \A a \in 1..Len(queue) : ~FlagDisabled(payload[FlagOf(queue[a])])

(***************************************************************************)
(* Claims about tryClick.                                                  *)
(***************************************************************************)
InTryClick == pc \in {"tc_loop", "tc_done"}
SeqRange(q) == {q[k] : k \in 1..Len(q)}
StrictlyIncreasing(q) == \A a, b \in 1..Len(q) : a < b => q[a] < q[b]

\* The candidate yields a locator, resolves to an element and its click succeeds.
Locatable(c) == c.shape \in {"string", "role", "text", "label"}
Clickable(c) == Locatable(c) /\ c.count = "one" /\ c.click = "ok"
\* The first clickable candidate of the list, 0 when there is none.
FirstClickable ==
  IF \E j \in 1..Len(variants) : Clickable(variants[j])
  THEN CHOOSE j \in 1..Len(variants) :
         Clickable(variants[j]) /\ \A m \in 1..(j - 1) : ~Clickable(variants[m])
  ELSE 0

\* C9: tryClick examines the candidates in declaration order, clicks the
\* first candidate that resolves and whose click succeeds, returns true at
\* that point and never resolves or clicks a later candidate; at most one
\* click succeeds in a call.
C9_FirstSuccessOnly ==
  InTryClick =>
    /\ StrictlyIncreasing(tc.resolved) /\ StrictlyIncreasing(tc.clicks)
    /\ SeqRange(tc.resolved) = {j \in 1..(vi - 1) : Locatable(variants[j])}
    /\ Len(tc.clickOk) <= 1
    /\ (FirstClickable # 0 /\ vi > FirstClickable) => tc.ret = "true"
    /\ tc.ret = "true" =>
         /\ tc.clickOk = <<FirstClickable>>
         /\ vi = FirstClickable + 1
         /\ \A j \in SeqRange(tc.resolved) \cup SeqRange(tc.clicks) : j <= FirstClickable

\* C9 witness: of four candidates the first two resolve to no element, the
\* third is clicked, and the fourth, which would click too, is never resolved.
C9_Witness ==
  /\ pc = "tc_done" /\ tc.ret = "true"
  /\ Len(variants) = 4
  /\ Locatable(variants[1]) /\ variants[1].count = "zero"
  /\ Locatable(variants[2]) /\ variants[2].count = "zero"
  /\ Clickable(variants[4])
  /\ tc.resolved = <<1, 2, 3>> /\ tc.clickOk = <<3>>

\* C10: tryClick never raises; it returns true exactly when some candidate's
\* click succeeded and false when every candidate is absent, malformed or
\* throws; a candidate whose element exists but whose click fails is passed
\* over like an absent one and the next candidate is tried.
C10_NeverRaises ==
  InTryClick =>
    /\ ~tc.raised
    /\ tc.ret \in {"pending", "true", "false"}
    /\ pc = "tc_done" =>
         /\ tc.ret \in {"true", "false"}
         /\ tc.ret = "true" <=> tc.clickOk # <<>>
         /\ tc.ret = "true" <=> \E j \in 1..Len(variants) : Clickable(variants[j])
    /\ \A j \in 1..Len(variants) :
         (j < vi /\ Locatable(variants[j]) /\ variants[j].count = "one" /\ variants[j].click = "fails") =>
           /\ j \in SeqRange(tc.clicks)
           /\ tc.ret # "true" \/ vi > j + 1
           /\ (pc = "tc_done" /\ j < Len(variants)) => vi > j + 1

\* C10 witness: a call returned false after a failed click, a null candidate
\* and a candidate whose count() threw.
C10_Witness ==
  /\ pc = "tc_done" /\ tc.ret = "false"
  /\ tc.clicks # <<>>
  /\ \E j \in 1..Len(variants) : variants[j].shape = "null"
  /\ \E j \in 1..Len(variants) : variants[j].count = "throws"

(***************************************************************************)
(* Claims about the orchestration loop and finalizeThisService.            *)
(***************************************************************************)
\* The loop of main has run to its end without an exception.
LoopCompleted == pc = "teardown" \/ (pc = "done" /\ error \in {"", "context.close", "browser.close"})

\* C1: for a queue of length N the loop invokes one driver per task, in
\* queue order; the task that gets isLast = true is the N-th and only it,
\* every other task gets isLast = false, and with N = 0 no driver is invoked.
C1_OneDriverPerTaskInOrder ==
  /\ \A k \in 1..Len(calls) :
       /\ calls[k].task = k
       /\ k <= Len(queue)
       /\ calls[k].type = queue[k].type
       /\ calls[k].isLast <=> k = Len(queue)
  /\ Cardinality({k \in 1..Len(calls) : calls[k].isLast}) <= 1
  /\ LoopCompleted =>
       /\ Len(calls) = Len(queue)
       /\ Len(queue) >= 1 => calls[Len(queue)].isLast
  /\ (Len(queue) = 0 /\ pc \notin {"launch", "context", "page", "goto", "build"}) =>
       /\ calls = <<>>
       /\ \A k \in 1..Len(trace) : trace[k][1] = 0

\* C1 witness: a queue of three tasks has been processed to the end.
C1_Witness ==
  /\ pc = "done" /\ exitCode = 0
  /\ Len(queue) = 3 /\ Len(calls) = 3
  /\ ~calls[1].isLast /\ ~calls[2].isLast /\ calls[3].isLast

CheckoutSteps == {"contact-fill", "contacts-submit", "calendar-day", "timeframe",
                  "schedule-next", "final-book", "verify"}
\* Task t has gone through service selection, the Book Service click and
\* the loop-back attempts Back and Add more services, in this order, before
\* position k of the trace.
LoopedBackBefore(k, t) ==
  \E a \in 1..(k - 1) :
    /\ trace[a] = <<t, "service">>
    /\ \E b \in (a + 1)..(k - 1) :
         /\ trace[b] = <<t, "book-service">>
         /\ \E c \in (b + 1)..(k - 1) :
              /\ trace[c] = <<t, "contacts-back">>
              /\ \E d \in (c + 1)..(k - 1) : trace[d] = <<t, "add-more">>

\* C2: the contact form is filled at most once, only inside the last task
\* and only after each earlier task has done its service selection, Book
\* Service click, Back and Add more services; no task but the last fills or
\* submits the form, selects a date or time or clicks the final confirmation.
C2_CheckoutOnlyInLastTask ==
  /\ Cardinality({k \in 1..Len(trace) : trace[k][2] = "contact-fill"}) <= 1
  /\ \A k \in 1..Len(trace) :
       /\ trace[k][2] \in CheckoutSteps => trace[k][1] = Len(queue)
       /\ trace[k][2] = "contact-fill" =>
            \A t \in 1..(Len(queue) - 1) : LoopedBackBefore(k, t)

\* C2 witness: in a run of three tasks the contact form has been filled.
C2_Witness ==
  /\ Len(queue) = 3
  /\ \E k \in 1..Len(trace) : trace[k] = <<3, "contact-fill">>

\* The queue has been built.
Built == pc \notin {"launch", "context", "page", "goto", "build"} /\ error # "page.goto"

StepsAfterBook == {"contacts-back", "add-more"} \cup CheckoutSteps

\* C7: when no Book Service control can be clicked, finalizeThisService
\* raises; no later step of that task and no step of a later task is taken,
\* and the run ends with exit code 1.
C7_BookServiceFatal ==
  /\ booked = "false" => error = BookServiceError /\ pc \in {"catch", "catch_close", "done"}
  /\ error = BookServiceError =>
       /\ booked = "false"
       /\ \A k \in 1..Len(trace) :
            /\ trace[k][1] <= i + 1
            /\ trace[k][1] = i + 1 => trace[k][2] \notin StepsAfterBook
       /\ pc = "done" => exitCode = 1

\* C7 witness: the Book Service click of the second task failed and the run ended.
C7_Witness ==
  /\ pc = "done" /\ error = BookServiceError /\ exitCode = 1
  /\ i = 1 /\ Len(queue) >= 2

LastStep == IF trace = <<>> THEN <<0, "">> ELSE trace[Len(trace)]

\* C8: a failed 'Add to booking' raises nothing, and once Book Service has
\* been clicked the task goes on to its isLast branch (the contact form for
\* the last task, Back for the others) whether or not 'Add to booking' was clicked.
C8_AddToBookingSoft ==
  /\ LastStep = <<i + 1, "add-to-booking">> => error = "" /\ pc = "drawer2"
  /\ (LastStep = <<i + 1, "book-service">> /\ booked = "true") =>
       /\ error = ""
       /\ pc = IF isLast THEN "fill" ELSE "back"

\* C8 witness: 'Add to booking' failed, Book Service was clicked, and the
\* last task is about to fill the contact form.
C8_Witness ==
  /\ added = "false" /\ booked = "true"
  /\ LastStep = <<i + 1, "book-service">>
  /\ isLast /\ pc = "fill"

(***************************************************************************)
(* Claims about the error handler and the outcome of the run.              *)
(***************************************************************************)
ShotCount == Cardinality({k \in 1..Len(trace) : trace[k][2] \in ScreenshotTags})
InHandler == pc \in {"catch", "catch_close", "done"}

\* C11: an exception raised in the navigation, the loop or a driver is
\* caught once by main: the handler attempts one error screenshot, performs
\* the teardown and sets exit code 1, and a failed screenshot prevents
\* neither; without an exception the handler does not run.
C11_CaughtOnceAtTopLevel ==
  /\ ShotCount <= 1
  /\ error = "" => ShotCount = 0 /\ exitCode = 0
  /\ error # "" => InHandler
  /\ (error # "" /\ pc = "done") =>
       /\ ShotCount = 1
       /\ exitCode = 1
       /\ ~keepOpen => contextClosed /\ browserClosed

\* C11 witness: a driver has thrown, the screenshot failed, and the run
\* ended with the session closed and exit code 1.
C11_Witness ==
  /\ pc = "done" /\ error = "Could not click bedrooms option."
  /\ LastStep = <<0, "error-screenshot-failed">>
  /\ exitCode = 1 /\ contextClosed /\ browserClosed

\* C12: in every terminated run without the keep-open flag close() has
\* been called on the context and on the browser, on normal completion and
\* after any exception; with the flag set neither is ever closed.
C12_SessionClosedUnlessKeepOpen ==
  /\ keepOpen => ~contextClosed /\ ~browserClosed
  /\ (pc = "done" /\ ~keepOpen) => contextClosed /\ browserClosed

\* C12 witness: a run that ended through an exception of the final booking
\* click, without the keep-open flag, has closed context and browser.
C12_Witness ==
  /\ pc = "done" /\ ~keepOpen /\ error = "Final booking failed"
  /\ contextClosed /\ browserClosed

\* Every task has been given to its driver and the last one went through
\* the final confirmation and then the success verification.
RunVerified ==
  /\ Len(queue) >= 1
  /\ Len(calls) = Len(queue)
  /\ \E a, b \in 1..Len(trace) :
       /\ a < b
       /\ trace[a] = <<Len(queue), "final-book">>
       /\ trace[b] = <<Len(queue), "verify">>

\* C13: a run ends with exit code 0 only if every task was processed and
\* the last task ran through final confirmation to success verification;
\* every other run ends with a non-zero exit code.
C13_SuccessOnlyAfterVerification ==
  pc = "done" => (exitCode = 0 => RunVerified) /\ (~RunVerified => exitCode # 0)

\* The statement of C13 for the runs whose queue has at least one task.
C13_NonEmptyQueue ==
  (pc = "done" /\ Len(queue) >= 1) => (exitCode = 0 => RunVerified)

\* C14: once an exception has been raised while task i is processed, no
\* step of a later task is taken, no driver is invoked, the loop does not
\* advance and the only page interaction left is the error screenshot.
C14_NoStepAfterFatalError ==
  [][error # "" =>
       /\ error' = error
       /\ i' = i /\ calls' = calls /\ queue' = queue
       /\ pc' \in {"catch_close", "done"}
       /\ \/ trace' = trace
          \/ \E tag \in ScreenshotTags : trace' = Append(trace, <<0, tag>>)]_vars

\* C14 witness: the first of three tasks failed in its driver and the run
\* ended with the two later tasks never started.
C14_Witness ==
  /\ pc = "done" /\ error = "Service button not found"
  /\ i = 0 /\ Len(queue) = 3 /\ Len(calls) = 1
  /\ \A k \in 1..Len(trace) : trace[k][1] <= 1

(***************************************************************************)
(* Claims about the soft and the fatal failures of the drivers.            *)
(***************************************************************************)
CloseErrors == {"context.close", "browser.close"}

\* C21: success verification raises nothing and returns true or false; after
\* a false the driver returns as after a true: no exception is raised by it,
\* the run goes through the normal teardown, and its exit code is 0 unless a
\* close of the teardown rejects, whatever verification returned.
C21_VerificationSoft ==
  /\ verified \in {"unset", "true", "false"}
  /\ pc = "verify" => verified = "unset"
  /\ LastStep = <<i + 1, "verify">> =>
       /\ verified \in {"true", "false"}
       /\ error = "" /\ pc = "after_task"
  /\ verified # "unset" =>
       /\ \E k \in 1..Len(trace) : trace[k] = <<Len(queue), "verify">>
       /\ error \in {""} \cup CloseErrors
       /\ pc \in {"after_task", "loop", "teardown", "catch", "catch_close", "done"}
       /\ pc = "done" =>
            /\ exitCode = (IF error = "" THEN 0 ELSE 1)
            /\ ~keepOpen => contextClosed

\* C21 witness: verification returned false and the run ended through the
\* normal teardown with exit code 0.
C21_Witness ==
  /\ pc = "done" /\ verified = "false"
  /\ error = "" /\ exitCode = 0
  /\ contextClosed /\ browserClosed

\* The steps of finalizeThisService after the submission of the contact form.
ScheduleSteps == {"calendar-day", "timeframe", "schedule-next", "final-book", "strategy", "verify"}
SubmitFailed == \E k \in 1..Len(trace) : trace[k] = <<Len(queue), "contacts-submit", "false">>

\* C25: on the last task, when neither Submit nor Continue/Next can be
\* clicked after the contact form is filled, finalizeThisService raises;
\* date selection, time selection, the schedule Next click and the final
\* confirmation are not attempted, and the run ends with exit code 1.
C25_SubmitFatal ==
  /\ SubmitFailed <=> error = "Could not submit contact details."
  /\ SubmitFailed =>
       /\ isLast /\ i + 1 = Len(queue)
       /\ InHandler
       /\ \A k \in 1..Len(trace) : trace[k][2] \notin ScheduleSteps
       /\ strategyIndex = 0 /\ verified = "unset"
       /\ pc = "done" => exitCode = 1
  /\ (\E k \in 1..Len(trace) : trace[k][2] \in ScheduleSteps) =>
       \E k \in 1..Len(trace) : trace[k] = <<Len(queue), "contacts-submit", "true">>

\* C25 witness: the last of two tasks filled the contact form, could not
\* submit it, and the run ended with exit code 1.
C25_Witness ==
  /\ pc = "done" /\ exitCode = 1 /\ Len(queue) = 2
  /\ error = "Could not submit contact details."
  /\ \E k \in 1..Len(trace) : trace[k] = <<2, "contact-fill">>

(***************************************************************************)
(* Regular expressions of the schedule steps.  A piece of a pattern maps   *)
(* the set P of positions a match can have reached in s to the positions   *)
(* it can have reached after the piece; position p means that s[p] is the  *)
(* next character read.  The flag i is applied where the code sets it.     *)
(***************************************************************************)
EnDash == "ndash"                  \* the character U+2013, one element of a string
UpperCase == <<"A", "B", "C", "D", "E", "F", "G", "H", "I", "J", "K", "L", "M",
               "N", "O", "P", "Q", "R", "S", "T", "U", "V", "W", "X", "Y", "Z">>
LowerCase == <<"a", "b", "c", "d", "e", "f", "g", "h", "i", "j", "k", "l", "m",
               "n", "o", "p", "q", "r", "s", "t", "u", "v", "w", "x", "y", "z">>
Lower(c) == IF \E k \in 1..26 : UpperCase[k] = c
            THEN LowerCase[CHOOSE k \in 1..26 : UpperCase[k] = c] ELSE c
At(s, p) == IF p \in 1..Len(s) THEN s[p] ELSE ""

\* \s*
ReSpaces(s, P) ==
  {q \in 1..(Len(s) + 1) : \E p \in P : p <= q /\ \A k \in p..(q - 1) : IsSpace(s[k])}
\* the text t taken literally (escRe), letters compared without case
ReLit(s, P, t) ==
  {p + Len(t) : p \in {q \in P : \A k \in 1..Len(t) : Lower(At(s, q + k - 1)) = Lower(t[k])}}
\* \d{1,2}
ReDigits12(s, P) ==
  {p + 1 : p \in {q \in P : IsDigit(At(s, q))}}
    \cup {p + 2 : p \in {q \in P : IsDigit(At(s, q)) /\ IsDigit(At(s, q + 1))}}
\* (?::\d{2})?
ReOptMinutes(s, P) ==
  P \cup {p + 3 : p \in {q \in P : At(s, q) = ":" /\ IsDigit(At(s, q + 1)) /\ IsDigit(At(s, q + 2))}}
\* (?:am|pm)
ReMeridiem(s, P) ==
  {p + 2 : p \in {q \in P : Lower(At(s, q)) \in {"a", "p"} /\ Lower(At(s, q + 1)) = "m"}}
\* (?:am|pm)?
ReOptMeridiem(s, P) == P \cup ReMeridiem(s, P)
\* [-–]
ReDash(s, P) == {p + 1 : p \in {q \in P : At(s, q) \in {"-", EnDash}}}
\* -
ReHyphen(s, P) == {p + 1 : p \in {q \in P : At(s, q) = "-"}}

(***************************************************************************)
(* selectTimeFrame of playwright_script.mjs.                               *)
(***************************************************************************)
\* startTimeStr.replace(/\s*(?:AM|PM)$/i, '')
StripMeridiem(s) ==
  IF Len(s) >= 2 /\ Lower(s[Len(s) - 1]) \in {"a", "p"} /\ Lower(s[Len(s)]) = "m"
  THEN TrimRight(SubSeq(s, 1, Len(s) - 2)) ELSE s

\* The pattern without its ^: the time may stand anywhere in the label.
TimeFrameReUnanchored(timeOnlyStr, label) ==
  ReHyphen(label, ReSpaces(label, ReLit(label, 1..(Len(label) + 1), timeOnlyStr))) # {}

\* new RegExp(`^\\s*${escRe(timeOnlyStr)}\\s*-`, 'i') tested on a label
TimeFrameRe(timeOnlyStr, label) ==
  ReHyphen(label, ReSpaces(label, ReLit(label, ReSpaces(label, {1}), timeOnlyStr))) # {}

\* The positions of the elements of the page whose name or text matches re.
TimeFrameMatches(startTimeStr, labels) ==
  {k \in 1..Len(labels) : TimeFrameRe(StripMeridiem(startTimeStr), labels[k].text)}

\* The least element of a non-empty set of positions: locator.first()
First(S) == CHOOSE k \in S : \A j \in S : k <= j

\* The candidates [{ role: 'button', name: re }, { text: re }] with what
\* the page does: count() is 0 when nothing matches, the click of each
\* candidate succeeds or fails.
TimeFrameVariants(startTimeStr, labels) ==
  LET n == IF TimeFrameMatches(startTimeStr, labels) = {} THEN "zero" ELSE "one"
  IN {<<Cand("role", n, c1), Cand("text", n, c2)>> :
        c1 \in {"ok", "fails"}, c2 \in {"ok", "fails"}}

(***************************************************************************)
(* arrival-window-patch.mjs.                                               *)
(***************************************************************************)
NoKey == [null |-> TRUE, key |-> <<>>]
\* `${h}:${mm}` with h = String(parseInt(m[1], 10)), mm = m[2] ? m[2] : "00"
StartKey(hh, mm) == [null |-> FALSE, key |-> NatToStr(DigitsVal(hh)) \o <<":">> \o mm]

\* The first match of /(\d{1,2})(?::(\d{2}))?/ from position p on.
KeyAt(t, p) ==
  LET n == IF IsDigit(At(t, p + 1)) THEN 2 ELSE 1
      hasMin == At(t, p + n) = ":" /\ IsDigit(At(t, p + n + 1)) /\ IsDigit(At(t, p + n + 2))
  IN StartKey(SubSeq(t, p, p + n - 1),
              IF hasMin THEN SubSeq(t, p + n + 1, p + n + 2) ELSE <<"0", "0">>)

\* startKeyFromTimeString(s)
startKeyFromTimeString(s) ==
  LET t == Trim(s)
      D == {p \in 1..Len(t) : IsDigit(t[p])}
  IN IF s = <<>> THEN NoKey                      \* if (!s) return null
     ELSE IF D = {} THEN NoKey                   \* if (!m) return null
     ELSE KeyAt(t, First(D))

\* startKeyFromSlotLabel(label): the pattern
\* /^\s*(\d{1,2})(?::(\d{2}))?\s*(?:am|pm)?\s*[-–]/i, the two-digit
\* hour and the minutes tried first.
startKeyFromSlotLabel(label) ==
  LET t == Trim(label)
      Rest(P) == ReDash(t, ReSpaces(t, ReOptMeridiem(t, ReSpaces(t, P)))) # {}
      Digs(n) == \A k \in 1..n : IsDigit(At(t, k))
      Mins(n) == At(t, n + 1) = ":" /\ IsDigit(At(t, n + 2)) /\ IsDigit(At(t, n + 3))
      Try(n, withMin) ==
        /\ Digs(n)
        /\ IF withMin THEN Mins(n) /\ Rest({n + 4}) ELSE Rest({n + 1})
      Key(n, withMin) ==
        StartKey(SubSeq(t, 1, n), IF withMin THEN SubSeq(t, n + 2, n + 3) ELSE <<"0", "0">>)
  IN IF label = <<>> THEN NoKey
     ELSE IF Try(2, TRUE) THEN Key(2, TRUE)
     ELSE IF Try(2, FALSE) THEN Key(2, FALSE)
     ELSE IF Try(1, TRUE) THEN Key(1, TRUE)
     ELSE IF Try(1, FALSE) THEN Key(1, FALSE)
     ELSE NoKey

\* innerText.replace(/\s+/g, ' ').trim()
RECURSIVE CollapseSpaces(_)
CollapseSpaces(s) ==
  IF Len(s) < 2 THEN s
  ELSE IF IsSpace(s[1]) /\ IsSpace(s[2]) THEN CollapseSpaces(Tail(s))
  ELSE <<s[1]>> \o CollapseSpaces(Tail(s))
RawText(text) == Trim(CollapseSpaces(text))

\* The test that keeps only the buttons that look like a time range.
LooksLikeRange(raw) ==
  LET a == ReOptMeridiem(raw, ReSpaces(raw, ReOptMinutes(raw,
             ReDigits12(raw, 1..(Len(raw) + 1)))))
      b == ReOptMinutes(raw, ReDigits12(raw, ReSpaces(raw, ReDash(raw, ReSpaces(raw, a)))))
  IN ReMeridiem(raw, ReSpaces(raw, b)) # {}

\* The buttons the loop of selectArrivalWindowByStart stops at: range-like,
\* with the start key wanted.
ArrivalWindowMatches(wantKey, labels) ==
  {k \in 1..Len(labels) :
     /\ LooksLikeRange(RawText(labels[k].text))
     /\ startKeyFromSlotLabel(RawText(labels[k].text)) = wantKey}

\* The fallback: new RegExp(`^\\s*${safe}\\s*(?:am|pm)?\\s*[-–]`, 'i') on the names
ArrivalWindowFallback(wantKey, labels) ==
  {k \in 1..Len(labels) :
     LET l == labels[k].text
     IN ReDash(l, ReSpaces(l, ReOptMeridiem(l, ReSpaces(l,
          ReLit(l, ReSpaces(l, {1}), wantKey.key))))) # {}}

(***************************************************************************)
(* The time-window step on bounded pages.                                  *)
(***************************************************************************)
MaxSlots == 3
\* Requested start times, each with the hour and minute it stands for.
TimeRequests ==
  {[text |-> <<"1", "0", ":", "0", "0", " ", "A", "M">>, start |-> <<10, 0>>],
   [text |-> <<"9", ":", "0", "0", " ", "A", "M">>, start |-> <<9, 0>>],
   [text |-> <<"0", "9", ":", "0", "0", " ", "A", "M">>, start |-> <<9, 0>>],
   [text |-> <<"9", " ", "A", "M">>, start |-> <<9, 0>>],
   [text |-> <<"2", ":", "0", "0">>, start |-> <<2, 0>>],
   [text |-> <<"1", "0", ":", "3", "0", " ", "A", "M">>, start |-> <<10, 30>>],
   [text |-> <<"1", ":", "0", "0", " ", "P", "M">>, start |-> <<1, 0>>],
   [text |-> <<"n", "o", "o", "n">>, start |-> <<12, 0>>]}
\* What a button of the page can show, with the start of the window it
\* stands for (<<-1, -1>> when it is not a time window).
SlotLabels ==
  {[text |-> <<"1", "0", ":", "0", "0", " ", "-", " ", "1", "2", ":", "0", "0", "p", "m">>, start |-> <<10, 0>>],
   [text |-> <<"1", "0", ":", "3", "0", " ", "-", " ", "1", "2", ":", "3", "0", "p", "m">>, start |-> <<10, 30>>],
   [text |-> <<"9", ":", "0", "0", " ", "-", " ", "1", "1", ":", "0", "0", "a", "m">>, start |-> <<9, 0>>],
   [text |-> <<"1", "2", ":", "0", "0", " ", "-", " ", "2", ":", "0", "0", "p", "m">>, start |-> <<12, 0>>],
   [text |-> <<"2", ":", "0", "0", " ", "ndash", " ", "4", ":", "0", "0", "p", "m">>, start |-> <<2, 0>>],
   [text |-> <<"1", "1", ":", "0", "0", " ", "-", " ", "1", ":", "0", "0", "p", "m">>, start |-> <<11, 0>>],
   [text |-> <<"1", ":", "0", "0", " ", "-", " ", "3", ":", "0", "0", "p", "m">>, start |-> <<1, 0>>],
   [text |-> <<"1", "0", ":", "0", "0", " ", "-", " ", "n", "o", "o", "n">>, start |-> <<10, 0>>],
   [text |-> <<"N", "e", "x", "t">>, start |-> <<-1, -1>>]}
\* The pages: up to MaxSlots different buttons in any order.
SlotPages ==
  {pg \in UNION {[1..n -> SlotLabels] : n \in 0..MaxSlots} :
     \A a, b \in DOMAIN pg : a # b => pg[a] # pg[b]}

startTimeStr == payload["time_frame_start"].s

TFInit ==
  /\ \E r \in TimeRequests :
       payload = [EmptyPayload EXCEPT !["time_frame_start"] = Str(r.text)]
  /\ page \in SlotPages
  /\ clicked = 0 /\ dt = NullDate
  /\ queue = <<>>
  /\ pc = "tf_init"
  /\ ClickIdle
  /\ keepOpen = FALSE
  /\ RunStart
  /\ EnvIdle

\* selectTimeFrame(page, payload.time_frame_start) of playwright_script.mjs
TFSelectTimeFrame ==
  /\ pc = "tf_init"
  /\ \E vs \in TimeFrameVariants(startTimeStr, page) :
       /\ variants' = vs
       /\ tc' = tryClick(vs)
       /\ clicked' = IF tc'.ret = "true"
                     THEN First(TimeFrameMatches(startTimeStr, page)) ELSE 0
  /\ pc' = "tf_main"                            \* if (!ok) warn(...)
  /\ UNCHANGED <<queueVars, envVars, vi, runVars, page, dt>>

\* selectArrivalWindowByStart(page, payload.time_frame_start)
TFSelectArrivalWindow ==
  /\ pc = "tf_init"
  /\ LET wantKey == startKeyFromTimeString(startTimeStr)
         inLoop == ArrivalWindowMatches(wantKey, page)
         inFallback == ArrivalWindowFallback(wantKey, page)
     IN IF wantKey.null
        THEN clicked' = 0 /\ error' = "[time] Invalid time_frame_start"
        ELSE IF inLoop # {}
        THEN \/ clicked' = First(inLoop) /\ error' \in {"", "next"}
             \/ clicked' = 0 /\ error' = "click"             \* btn.click throws
        ELSE IF inFallback # {}
        THEN \/ clicked' = First(inFallback) /\ error' \in {"", "next"}
             \/ clicked' = 0 /\ error' = "click"
        ELSE clicked' = 0 /\ error' = "Could not find a time slot"
  /\ pc' = "tf_patch"
  /\ UNCHANGED <<queueVars, envVars, clickVars, bookVars, keepOpen, i, isLast, added, booked, calls, trace,
                 exitCode, contextClosed, browserClosed, page, dt>>

TFNext == TFSelectTimeFrame \/ TFSelectArrivalWindow
SpecTime == TFInit /\ [][TFNext]_vars

(***************************************************************************)
(* Claims about the time-window matchers.                                  *)
(***************************************************************************)
TimeStepDone == pc \in {"tf_main", "tf_patch"}
\* The hour and minute the requested start stands for.
RequestedStart == (CHOOSE r \in TimeRequests : r.text = startTimeStr).start

\* C15: the time-window matcher clicks only a window whose label starts at
\* the requested hour:minute: never one whose start shares only a prefix
\* with the request, nor one that has the requested time as the end of its range.
C15_ExactStartOnly ==
  (TimeStepDone /\ clicked # 0) => page[clicked].start = RequestedStart

\* C15 witness: for "10:00 AM" selectTimeFrame has passed over
\* "10:30 - 12:30pm" and clicked "10:00 - 12:00pm" behind it.
C15_Witness ==
  /\ pc = "tf_main"
  /\ startTimeStr = <<"1", "0", ":", "0", "0", " ", "A", "M">>
  /\ Len(page) >= 2 /\ page[1].start = <<10, 30>>
  /\ clicked = 2 /\ page[2].start = <<10, 0>>

\* The start-key of the requested start: hour without leading zero, a
\* colon, two-digit minute.
ExpectedKey == NatToStr(RequestedStart[1]) \o <<":">> \o Pad2(RequestedStart[2])
\* The text of the request the matcher compares the labels with.
KeyUsed == IF pc = "tf_main" THEN StripMeridiem(startTimeStr)
           ELSE startKeyFromTimeString(startTimeStr).key
\* The request is written with digits.
NumericRequest == \E k \in 1..Len(startTimeStr) : IsDigit(startTimeStr[k])
SlotShown == \E k \in 1..Len(page) : page[k].start = RequestedStart
ClickFailed == IF pc = "tf_main" THEN tc.clicks # <<>> /\ tc.ret = "false"
               ELSE error = "click"
KeyNormalized ==
  /\ KeyUsed = ExpectedKey
  /\ SlotShown => (clicked # 0 /\ page[clicked].start = RequestedStart) \/ ClickFailed

\* C16: the requested start is normalized to its start-key before the
\* labels are matched, so that "09:00 AM", "9:00 AM" and "9 AM" all give
\* "9:00" and select the window that starts at 9:00 when the page shows one.
C16_StartKeyNormalized == (TimeStepDone /\ NumericRequest) => KeyNormalized

\* The statement of C16 for selectArrivalWindowByStart alone.
C16_PatchOnly == (pc = "tf_patch" /\ NumericRequest) => KeyNormalized

(***************************************************************************)
(* parseMMDDYYYY and selectDate.                                           *)
(***************************************************************************)
NaN == [t |-> "nan", b |-> FALSE, n |-> 0, s |-> <<>>]
\* The value of parseInt(x, 10) as a JavaScript value.
ParsedInt(x) == LET r == parseInt(x) IN IF r.nan THEN NaN ELSE Num(r.n)

\* s.includes(c)
Includes(s, c) == \E k \in 1..Len(s) : s[k] = c

\* s.split(c)
RECURSIVE Split(_, _)
Split(s, c) ==
  IF ~Includes(s, c) THEN <<s>>
  ELSE LET k == CHOOSE j \in 1..Len(s) : s[j] = c /\ \A h \in 1..(j - 1) : s[h] # c
       IN <<SubSeq(s, 1, k - 1)>> \o Split(SubSeq(s, k + 1, Len(s)), c)

\* Element k of s.split(c).map((x) => parseInt(x, 10)), undefined past the end.
Part(s, c, k) == LET ps == Split(s, c) IN IF k <= Len(ps) THEN ParsedInt(ps[k]) ELSE Undef

\* The slash form read day first.
FromSlashDayFirst(s) ==
  [null |-> FALSE, y |-> Part(s, "/", 3), m |-> Part(s, "/", 2), d |-> Part(s, "/", 1)]

\* const [mm, dd, yyyy] = s.split('/').map(...); return { y: yyyy, m: mm, d: dd }
FromSlash(s) ==
  [null |-> FALSE, y |-> Part(s, "/", 3), m |-> Part(s, "/", 1), d |-> Part(s, "/", 2)]

\* const [yyyy, mm, dd] = s.split('-').map(...); return { y: yyyy, m: mm, d: dd }
FromDash(s) ==
  [null |-> FALSE, y |-> Part(s, "-", 1), m |-> Part(s, "-", 2), d |-> Part(s, "-", 3)]

\* parseMMDDYYYY(s)
parseMMDDYYYY(s) ==
  IF s = <<>> THEN NullDate
  ELSE IF Includes(s, "/") THEN FromSlash(s)
  ELSE IF Includes(s, "-") THEN FromDash(s)
  ELSE NullDate

\* new Date(y, m, d): the calendar of the Date constructor.
Leap(y) == (y % 4 = 0 /\ y % 100 # 0) \/ y % 400 = 0
DaysIn(y, mi) ==
  IF mi = 1 THEN (IF Leap(y) THEN 29 ELSE 28)
  ELSE IF mi \in {3, 5, 8, 10} THEN 30 ELSE 31
\* Years 0..99 stand for 1900..1999.
FullYear(y) == IF y \in 0..99 THEN 1900 + y ELSE y
\* The month index (0..11) of the date that month index mi and day d of
\* year y normalize to.
RECURSIVE MonthIndex(_, _, _)
MonthIndex(y, mi, d) ==
  IF mi > 11 THEN MonthIndex(y + 1, mi - 12, d)
  ELSE IF mi < 0 THEN MonthIndex(y - 1, mi + 12, d)
  ELSE IF d > DaysIn(y, mi) THEN MonthIndex(y, mi + 1, d - DaysIn(y, mi))
  ELSE IF d < 1 THEN (IF mi = 0 THEN MonthIndex(y - 1, 11, d + 31)
                      ELSE MonthIndex(y, mi - 1, d + DaysIn(y, mi - 1)))
  ELSE mi
MonthNames == <<<<"J", "a", "n">>, <<"F", "e", "b">>, <<"M", "a", "r">>, <<"A", "p", "r">>, <<"M", "a", "y">>, <<"J", "u", "n">>, <<"J", "u", "l">>, <<"A", "u", "g">>, <<"S", "e", "p">>, <<"O", "c", "t">>, <<"N", "o", "v">>, <<"D", "e", "c">>>>

\* new Date(dt.y, dt.m - 1, dt.d).toLocaleString('en-US', { month: 'short' })
monthAbbr(date) ==
  IF date.y.t # "num" \/ date.m.t # "num" \/ date.d.t # "num"
  THEN <<"I", "n", "v", "a", "l", "i", "d", " ", "D", "a", "t", "e">>
  ELSE MonthNames[MonthIndex(FullYear(date.y.n), date.m.n - 1, date.d.n) + 1]

\* `${dt.d}`
DayText(v) == IF v.t = "nan" THEN <<"N", "a", "N">> ELSE JsString(v)

\* new RegExp(`${monthAbbr}\\s*${dt.d}`, 'i') tested on a label; the
\* suffix (?:st|nd|rd|th)? of the earlier revision ends the pattern and
\* changes no test.
DayRe(date, label) ==
  ReLit(label, ReSpaces(label, ReLit(label, 1..(Len(label) + 1), monthAbbr(date))),
        DayText(date.d)) # {}

\* The positions of the elements of a page that the pattern matches.
DayMatches(date, labels) == {k \in 1..Len(labels) : DayRe(date, labels[k].text)}

\* [{ role: 'button', name: re }, { text: re }] with what the page does.
DayVariants(date, labels) ==
  LET n == IF DayMatches(date, labels) = {} THEN "zero" ELSE "one"
  IN {<<Cand("role", n, c1), Cand("text", n, c2)>> :
        c1 \in {"ok", "fails"}, c2 \in {"ok", "fails"}}

(***************************************************************************)
(* The date step on bounded requests and pages.                            *)
(***************************************************************************)
MaxDays == 2
DateYears == {2024, 2025}
DateDays == {1, 5, 10, 29, 31}
\* Calendar dates <<year, month, day>>.
CalendarDates ==
  {dte \in DateYears \X (1..12) \X DateDays : dte[3] <= DaysIn(dte[1], dte[2] - 1)}
Pad4(n) == IF n < 10 THEN <<"0", "0", "0">> \o NatToStr(n)
           ELSE IF n < 100 THEN <<"0", "0">> \o NatToStr(n)
           ELSE IF n < 1000 THEN <<"0">> \o NatToStr(n) ELSE NatToStr(n)
\* A date written MM/DD/YYYY and YYYY-MM-DD.
WrittenSlash(dte) == Pad2(dte[2]) \o <<"/">> \o Pad2(dte[3]) \o <<"/">> \o Pad4(dte[1])
WrittenDash(dte) == Pad4(dte[1]) \o <<"-">> \o Pad2(dte[2]) \o <<"-">> \o Pad2(dte[3])
\* Strings that are not a date in either form.
NotDates ==
  {<<"t", "o", "m", "o", "r", "r", "o", "w">>,
   <<"a", "b", "/", "c", "d", "/", "e", "f", "g", "h">>,
   <<"0", "9", "/", "0", "5">>,
   <<"2", "0", "2", "5", "-", "0", "9">>,
   <<"S", "e", "p", "-", "5", "-", "2", "0", "2", "5">>,
   <<"1", "3", "/", "4", "5", "/", "2", "0", "2", "5">>,
   <<"0", "2", "/", "3", "0", "/", "2", "0", "2", "5">>}
DateStrings ==
  {WrittenSlash(dte) : dte \in CalendarDates} \cup {WrittenDash(dte) : dte \in CalendarDates}
    \cup NotDates
\* What a day button of the calendar can show, with its <<month, day>>.
DayLabels ==
  {[text |-> <<"S", "e", "p", " ", "5">>, day |-> <<9, 5>>],
   [text |-> <<"S", "e", "p", " ", "1", "5">>, day |-> <<9, 15>>],
   [text |-> <<"M", "a", "r", " ", "3", "0">>, day |-> <<3, 30>>],
   [text |-> <<"F", "e", "b", " ", "2", "9">>, day |-> <<2, 29>>]}
DayPages ==
  {pg \in UNION {[1..n -> DayLabels] : n \in 0..MaxDays} :
     \A a, b \in DOMAIN pg : a # b => pg[a] # pg[b]}

dateStr == payload["appointment_date"].s

DInit ==
  /\ \E str \in DateStrings :
       payload = [EmptyPayload EXCEPT !["appointment_date"] = Str(str)]
  /\ page \in DayPages
  /\ clicked = 0 /\ dt = NullDate
  /\ queue = <<>>
  /\ pc = "d_init"
  /\ ClickIdle
  /\ keepOpen = FALSE
  /\ RunStart
  /\ EnvIdle

\* selectDate: const dt = parseMMDDYYYY(dateStr)
DParse ==
  /\ pc = "d_init"
  /\ dt' = parseMMDDYYYY(dateStr)
  /\ pc' = "d_parsed"
  /\ UNCHANGED <<queueVars, envVars, clickVars, runVars, page, clicked>>

\* selectDate of playwright_script.mjs after the parse; the flow then
\* goes on to the time selection.
DSelectDate ==
  /\ pc = "d_parsed"
  /\ IF dt.null
     THEN clicked' = 0 /\ UNCHANGED <<variants, tc>>      \* warn(...); return
     ELSE \E vs \in DayVariants(dt, page) :
            /\ variants' = vs
            /\ tc' = tryClick(vs)
            /\ clicked' = IF tc'.ret = "true" THEN First(DayMatches(dt, page)) ELSE 0
  /\ pc' = "d_time"
  /\ UNCHANGED <<queueVars, envVars, vi, runVars, page, dt>>

\* selectDate of playwright_script-almost.mjs after the parse: the target
\* by dayRe, the calendar paged forward while it is missing, the click with
\* its mouse fallback, which throws when the target has no bounding box.
DSelectDateAlmost ==
  /\ pc = "d_parsed"
  /\ IF dt.null
     THEN clicked' = 0 /\ page' = page /\ pc' = "d_time_almost" /\ UNCHANGED error
     ELSE \E pg \in DayPages \cup {page} :
            /\ DayMatches(dt, page) # {} => pg = page
            /\ page' = pg
            /\ IF DayMatches(dt, pg) = {}
               THEN clicked' = 0 /\ pc' = "d_time_almost" /\ UNCHANGED error
               ELSE \/ /\ clicked' = First(DayMatches(dt, pg))
                       /\ pc' = "d_time_almost" /\ UNCHANGED error
                    \/ /\ clicked' = 0 /\ pc' = "d_failed"
                       /\ error' = "Could not click date target."
  /\ UNCHANGED <<queueVars, envVars, clickVars, bookVars, keepOpen, i, isLast, added, booked, calls, trace,
                 exitCode, contextClosed, browserClosed, dt>>

DNext == DParse \/ DSelectDate \/ DSelectDateAlmost
SpecDate == DInit /\ [][DNext]_vars

(***************************************************************************)
(* Claims about the date parser and the date step.                         *)
(***************************************************************************)
DateParsed == pc \in {"d_parsed", "d_time", "d_time_almost", "d_failed"}
\* The calendar date that the request writes in one of the two forms.
DateWritten ==
  CHOOSE dte \in CalendarDates : dateStr \in {WrittenSlash(dte), WrittenDash(dte)}
Triple(dte) == [null |-> FALSE, y |-> Num(dte[1]), m |-> Num(dte[2]), d |-> Num(dte[3])]

\* C17: for every calendar date the parse of its MM/DD/YYYY form and the
\* parse of its YYYY-MM-DD form give the same {year, month, day}, which is
\* the date written.
C17_BothFormsSameTriple ==
  (DateParsed /\ dateStr \notin NotDates) =>
     /\ dt = Triple(DateWritten)
     /\ parseMMDDYYYY(WrittenSlash(DateWritten)) = dt
     /\ parseMMDDYYYY(WrittenDash(DateWritten)) = dt

\* C17 witness: "09/05/2025" has been parsed to year 2025, month 9, day 5.
C17_Witness ==
  /\ pc = "d_parsed"
  /\ dateStr = <<"0", "9", "/", "0", "5", "/", "2", "0", "2", "5">>
  /\ dt = [null |-> FALSE, y |-> Num(2025), m |-> Num(9), d |-> Num(5)]

\* C18: for every appointment_date string that is not a date in one of
\* the two forms the parser yields null, and the date step returns without
\* raising and without clicking a calendar day, the flow going on to the
\* time selection.
C18_NotADateSkipsSelection ==
  dateStr \in NotDates =>
     /\ DateParsed => dt.null
     /\ clicked = 0
     /\ error = "" /\ pc # "d_failed"

\* The statement of C18 for the strings that hold neither '/' nor '-'.
C18_NoSeparator ==
  (dateStr \in NotDates /\ ~Includes(dateStr, "/") /\ ~Includes(dateStr, "-")) =>
     /\ DateParsed => dt.null
     /\ clicked = 0
     /\ error = "" /\ pc # "d_failed"

(***************************************************************************)
(* The state selection of the contact form.                                *)
(***************************************************************************)
Upper(c) == IF \E k \in 1..26 : LowerCase[k] = c
            THEN UpperCase[CHOOSE k \in 1..26 : LowerCase[k] = c] ELSE c
\* String(value).trim().toUpperCase()
toUpperCase(str) == [k \in DOMAIN str |-> Upper(str[k])]
\* \w
IsWord(c) == IsDigit(c) \/ c = "_" \/ (\E k \in 1..26 : c = UpperCase[k] \/ c = LowerCase[k])
\* \b
ReBoundary(str, P) == {p \in P : IsWord(At(str, p - 1)) # IsWord(At(str, p))}

\* new RegExp(state, 'i') tested on the name of an option
StateRe(state, name) == ReLit(name, 1..(Len(name) + 1), state) # {}

\* page.getByRole('option', { name: new RegExp(state, 'i') })
StateOptions(state, options) == {k \in 1..Len(options) : StateRe(state, options[k].text)}

\* The entries of fullNameByCode for the codes of the requests; a value
\* that is no code of the table stands for itself.
fullNameByCode(code, value) ==
  CASE code = <<"O", "R">> -> <<"O", "r", "e", "g", "o", "n">>
    [] code = <<"C", "O">> -> <<"C", "o", "l", "o", "r", "a", "d", "o">>
    [] code = <<"F", "L">> -> <<"F", "l", "o", "r", "i", "d", "a">>
    [] code = <<"O", "H">> -> <<"O", "h", "i", "o">>
    [] OTHER -> value

\* new RegExp(`^\\s*${text}\\b`, 'i') tested on the name of an option
OptionStartsWith(text, name) ==
  ReBoundary(name, ReLit(name, ReSpaces(name, {1}), text)) # {}
\* optionByCode and optionByFull of selectAutocompleteByTestId
OptionsByCode(value, options) ==
  {k \in 1..Len(options) : OptionStartsWith(toUpperCase(Trim(value)), options[k].text)}
OptionsByFull(value, options) ==
  {k \in 1..Len(options) :
     OptionStartsWith(fullNameByCode(toUpperCase(Trim(value)), value), options[k].text)}

MaxOptions == 3
\* The state codes of the requests.
StateCodes == {<<"O", "R">>, <<"C", "O">>, <<"F", "L">>, <<"O", "H">>, <<"o", "r">>}
\* What an option of the list can show, with the code of its state.
StateOptionLabels ==
  {[text |-> <<"C", "o", "l", "o", "r", "a", "d", "o">>, code |-> <<"C", "O">>],
   [text |-> <<"F", "l", "o", "r", "i", "d", "a">>, code |-> <<"F", "L">>],
   [text |-> <<"O", "r", "e", "g", "o", "n">>, code |-> <<"O", "R">>],
   [text |-> <<"O", "R">>, code |-> <<"O", "R">>],
   [text |-> <<"O", "h", "i", "o">>, code |-> <<"O", "H">>],
   [text |-> <<"C", "O">>, code |-> <<"C", "O">>]}
OptionPages ==
  {pg \in UNION {[1..n -> StateOptionLabels] : n \in 0..MaxOptions} :
     \A a, b \in DOMAIN pg : a # b => pg[a] # pg[b]}

state == payload["state"].s

STInit ==
  /\ \E code \in StateCodes : payload = [EmptyPayload EXCEPT !["state"] = Str(code)]
  /\ page \in OptionPages
  /\ clicked = 0 /\ dt = NullDate
  /\ queue = <<>>
  /\ pc = "st_init"
  /\ ClickIdle
  /\ keepOpen = FALSE
  /\ RunStart
  /\ EnvIdle

\* fillContactDetails of playwright_script.mjs: if (state) { stateInput.click();
\* stateInput.type(state); option = ...first(); await option.click() } -
\* each await can time out and throw.
STFillContactDetails ==
  /\ pc = "st_init"
  /\ \/ clicked' = 0 /\ error' = "stateInput"
     \/ /\ StateOptions(state, page) = {}
        /\ clicked' = 0 /\ error' = "option.click"
     \/ /\ StateOptions(state, page) # {}
        /\ \/ clicked' = First(StateOptions(state, page)) /\ UNCHANGED error
           \/ clicked' = 0 /\ error' = "option.click"
  /\ pc' = "st_main"
  /\ UNCHANGED <<queueVars, envVars, clickVars, bookVars, keepOpen, i, isLast, added, booked, calls, trace,
                 exitCode, contextClosed, browserClosed, page, dt>>

\* selectAutocompleteByTestId of the remote revision: the option by code,
\* else by full name, else the Enter key; the Enter key also after any
\* exception of the try block.
STSelectAutocomplete ==
  /\ pc = "st_init"
  /\ LET byCode == OptionsByCode(state, page)
         byFull == OptionsByFull(state, page)
         hit == IF byCode # {} THEN First(byCode)
                ELSE IF byFull # {} THEN First(byFull) ELSE 0
     IN \/ hit # 0 /\ clicked' = hit /\ UNCHANGED trace
        \/ clicked' = 0 /\ trace' = Append(trace, <<0, "press-enter">>)
  /\ pc' = "st_patch"
  /\ UNCHANGED <<queueVars, envVars, clickVars, bookVars, keepOpen, i, isLast, added, booked, calls, error,
                 exitCode, contextClosed, browserClosed, page, dt>>

STNext == STFillContactDetails \/ STSelectAutocomplete
SpecState == STInit /\ [][STNext]_vars

(***************************************************************************)
(* Claims about the state selection.                                       *)
(***************************************************************************)
\* C19: given a 2-letter state code, the option clicked is the option of
\* that state, never the option of another state whose name only contains
\* the letters of the code.
C19_OptionOfRequestedState ==
  (pc \in {"st_main", "st_patch"} /\ clicked # 0) => page[clicked].code = toUpperCase(state)

\* The statement of C19 for selectAutocompleteByTestId alone.
C19_RemoteOnly ==
  (pc = "st_patch" /\ clicked # 0) => page[clicked].code = toUpperCase(state)

(***************************************************************************)
(* Claims about the final confirmation.                                    *)
(***************************************************************************)
IsStrategyStep(e) == e[2] = "strategy"
\* The strategies executed so far, in the order of their execution.
StrategySteps == SelectSeq(trace, IsStrategyStep)
VerifyRun == \E k \in 1..Len(trace) : trace[k][2] = "verify"

\* C20: the strategies run in declared order; the loop stops at the first
\* one after which the success check holds, runs no later one and reports
\* its index; when none passes the function raises, finalizeThisService
\* raises 'Final booking failed', verifySuccess is not run and the run ends
\* with exit code 1.
C20_StrategiesInOrderUntilSuccess ==
  /\ Len(StrategySteps) = strategyIndex
  /\ \A k \in 1..Len(StrategySteps) :
       /\ StrategySteps[k][3] = k
       /\ StrategySteps[k][4] = "success" => k = Len(StrategySteps) /\ strategyUsed = k
  /\ strategyUsed # 0 =>
       /\ strategyUsed = strategyIndex
       /\ StrategySteps[strategyUsed][4] = "success"
       /\ pc # "strategy"
  /\ VerifyRun => strategyUsed # 0
  /\ (strategyIndex = NumStrategies /\ strategyUsed = 0 /\ pc # "strategy") =>
       /\ error = "Final booking failed"
       /\ ~VerifyRun
       /\ pc = "done" => exitCode = 1

\* C20 witness: the first two strategies failed, the third passed the
\* success check, and the run ended verified with exit code 0.
C20_Witness ==
  /\ pc = "done" /\ exitCode = 0
  /\ strategyIndex = 3 /\ strategyUsed = 3
  /\ VerifyRun

(***************************************************************************)
(* waitForMainMenu: the polling loop, one action per evaluation of the     *)
(* while test, per probe and per sleep.  now is Date.now() - start.        *)
(***************************************************************************)
\* const candidates = [ ... ]: the probes of the service menu
MenuCandidates == <<"button carpet cleaning", "button upholstery", "button pet stain",
                    "card Carpet Cleaning", "card Upholstery", "card Pet Stain",
                    "text what can we do for you">>
\* const timeout = 15000
Timeout == 15000
\* await sleep(200)
SleepMs == 200
\* What a probe can find: no element, an element that is not visible, a
\* visible element, or an exception of get(), count() or isVisible().
ProbeOutcomes == {"absent", "hidden", "visible", "throws"}
\* The time one probe and one sleep can take beyond the nominal.
ProbeMs == {0, 100}
SleepLate == {0, 100}

\* The record of one waitForMainMenu call: ret is "pending", "true" or
\* "thrown"; visible lists the probes that were present and visible when
\* evaluated; threw tells whether a probe has thrown.
WmStart == [ret |-> "pending", raised |-> FALSE, visible |-> <<>>, threw |-> FALSE]

\* A probe that counts an element that is present but hidden.
ProbeHitPresent(outcome) == outcome \in {"visible", "hidden"}

\* if ((await loc.count()) > 0 && (await loc.isVisible())) return true
ProbeHit(outcome) == outcome = "visible"

WMInit ==
  /\ pc = "wm_while"
  /\ tc = WmStart
  /\ variants = MenuCandidates
  /\ vi = 0
  /\ QueueIdle
  /\ keepOpen = FALSE
  /\ RunStart
  /\ PageIdle
  /\ EnvIdle

\* while (Date.now() - start < timeout) { for (const get of candidates) ...
WMWhile ==
  /\ pc = "wm_while"
  /\ now < Timeout
  /\ vi' = 1
  /\ pc' = "wm_probe"
  /\ UNCHANGED <<queueVars, pageVars, bookVars, envVars, variants, tc, keepOpen, i, isLast, added,
                 booked, calls, trace, error, exitCode, contextClosed, browserClosed>>

\* One pass of the for loop: try { const loc = get().first(); if (...) return true; } catch {}
WMProbe ==
  /\ pc = "wm_probe"
  /\ vi <= Len(variants)
  /\ \E outcome \in ProbeOutcomes, ms \in ProbeMs :
       /\ now' = now + ms
       /\ LET st == [tc EXCEPT !.visible = IF outcome = "visible" THEN Append(@, vi) ELSE @,
                               !.threw = @ \/ outcome = "throws"]
          IN IF outcome # "throws" /\ ProbeHit(outcome)
             THEN tc' = [st EXCEPT !.ret = "true"] /\ pc' = "wm_done"
             ELSE tc' = st /\ pc' = "wm_probe"
  /\ vi' = vi + 1
  /\ UNCHANGED <<queueVars, pageVars, bookVars, srvVars, script, session, active, ret, verified, variants, keepOpen, i,
                 isLast, added, booked, calls, trace, error, exitCode, contextClosed, browserClosed>>

\* The for loop is exhausted: await sleep(200)
WMSleep ==
  /\ pc = "wm_probe"
  /\ vi > Len(variants)
  /\ \E late \in SleepLate : now' = now + SleepMs + late
  /\ vi' = 0
  /\ pc' = "wm_while"
  /\ UNCHANGED <<queueVars, pageVars, bookVars, srvVars, script, session, active, ret, verified, variants, tc, keepOpen, i,
                 isLast, added, booked, calls, trace, error, exitCode, contextClosed, browserClosed>>

\* The while test fails: throw new Error('Service menu did not render.')
WMThrow ==
  /\ pc = "wm_while"
  /\ ~(now < Timeout)
  /\ tc' = [tc EXCEPT !.ret = "thrown", !.raised = TRUE]
  /\ error' = "Service menu did not render."
  /\ pc' = "wm_done"
  /\ UNCHANGED <<queueVars, pageVars, bookVars, envVars, variants, vi, keepOpen, i, isLast, added,
                 booked, calls, trace, exitCode, contextClosed, browserClosed>>

WMNext == WMWhile \/ WMProbe \/ WMSleep \/ WMThrow
\* Every await of the loop settles: a probe answers and a sleep ends.
SpecMenu == WMInit /\ [][WMNext]_vars /\ WF_vars(WMNext)

\* C22: waitForMainMenu always terminates; it returns true at the first
\* probe found present and visible and raises 'Service menu did not render.'
\* only once the timeout has elapsed; it does not return true unless a probe
\* was visible, and a probe that threw neither raises nor ends the polling.
C22_MenuWaitTerminates ==
  /\ [](/\ tc.ret \in {"pending", "true", "thrown"}
        /\ tc.ret = "pending" <=> pc # "wm_done"
        /\ tc.visible # <<>> => tc.ret = "true"
        /\ tc.ret = "true" => Len(tc.visible) = 1 /\ ~tc.raised /\ error = ""
        /\ tc.raised <=> tc.ret = "thrown"
        /\ tc.ret = "thrown" =>
             /\ now >= Timeout
             /\ tc.visible = <<>>
             /\ error = "Service menu did not render.")
  /\ <>(pc = "wm_done")

\* C22 witness: a probe threw, the polling went on through a sleep, and a
\* later poll found the last probe visible and returned true.
C22_Witness ==
  /\ pc = "wm_done" /\ tc.ret = "true"
  /\ tc.threw /\ now >= SleepMs
  /\ tc.visible = <<Len(MenuCandidates)>>

(***************************************************************************)
(* One task handed to its driver, in each revision of the script: the      *)
(* service click candidate by candidate, the customization step, the call  *)
(* of finalizeThisService taken as one step, and the catch of main.        *)
(***************************************************************************)
Scripts == {Main, Almost, Debug}

\* const candidates = [ ... ] of clickService
ServiceCandidates == <<"getByRole button", "button hasText", "role=button hasText",
                       "MuiCardActionArea hasText", "text ancestor button",
                       "text ancestor div role=button", "getByText">>

\* What the page can do to the candidates of clickService: candidate k is
\* the first that clicks (none when k = 0), the candidates before it all fail
\* in the way f, and the candidates after it would click too, or are absent.
ServiceOutcomes ==
  {[j \in 1..Len(ServiceCandidates) |->
      IF j < k \/ k = 0 THEN Cand("string", f[1], f[2])
      ELSE IF j = k THEN Cand("string", "one", "ok")
      ELSE Cand("string", g, "ok")] :
     k \in 0..Len(ServiceCandidates), g \in {"one", "zero"},
     f \in {<<"zero", "fails">>, <<"throws", "fails">>, <<"one", "fails">>}}

\* The record of one clickService call: counted, clicks and clickOk list
\* the candidates for which count() was called, click() was called, click()
\* succeeded; ret is "pending", "true" or "thrown".
CsStart == [ret |-> "pending", raised |-> FALSE, counted |-> <<>>, clicks |-> <<>>,
            clickOk |-> <<>>]

\* One iteration that goes on to the next candidate after a successful click.
ClickServiceIterNoReturn(st, v, idx) ==
  LET st1 == [st EXCEPT !.counted = Append(@, idx)]
  IN IF v.count # "one" THEN st1
     ELSE IF v.click = "ok"
          THEN [st1 EXCEPT !.clicks = Append(@, idx), !.clickOk = Append(@, idx)]
          ELSE [st1 EXCEPT !.clicks = Append(@, idx)]

\* clickService: one pass of for (const loc of candidates) { try { if
\* ((await loc.count()) === 0) continue; ...; await loc.click(...); await
\* waitIdle(...); return true; } catch {} }
ClickServiceIter(st, v, idx) ==
  LET st1 == [st EXCEPT !.counted = Append(@, idx)]
  IN IF v.count = "throws" THEN st1                        \* catch {}
     ELSE IF v.count = "zero" THEN st1                     \* continue
     ELSE IF v.click = "ok"
          THEN [st1 EXCEPT !.clicks = Append(@, idx), !.clickOk = Append(@, idx), !.ret = "true"]
          ELSE [st1 EXCEPT !.clicks = Append(@, idx)]      \* click throws; catch {}

\* The tasks given to the drivers.
DriverTasks ==
  {Task("carpet_cleaning", "", "", 0, [nan |-> FALSE, n |-> 4]),
   Task("carpet_cleaning", "", "", 0, [nan |-> FALSE, n |-> 3]),
   Task("pet_stain", "", "", 0, NoNumber),
   Task("upholstery", "couch", "Couch", 1, NoNumber),
   Task("upholstery", "recliner", "Recliner", 2, NoNumber),
   Task("carpet_stretching", "", "", 0, NoNumber)}

\* handleCarpetCleaning of playwright_script.mjs and of
\* playwright_script-almost.mjs: if (!picked) throw new Error('Could not click bedrooms option.')
handleCarpetCleaning(picked) == IF picked = "true" THEN "dr_finalize" ELSE "dr_catch"
\* handleCarpetCleaning of run-local-debug.mjs: if (!picked) warn('...; continuing.')
handleCarpetCleaningDebug(picked) == "dr_finalize"

\* handleUpholstery of playwright_script.mjs: if (!picked) { ...; throw new
\* Error('Failed to select upholstery item ...') }; if (qty && qty > 1) setQty
handleUpholstery(picked, qty) ==
  IF picked # "true" THEN "dr_catch" ELSE IF qty > 1 THEN "dr_qty" ELSE "dr_finalize"
\* handleUpholstery of playwright_script-almost.mjs: if (!card) throw ...;
\* if (!clicked) throw ...; if (qty && qty > 1) { try { setQty } catch {} }
handleUpholsteryAlmost(picked, qty) ==
  IF picked # "true" THEN "dr_catch" ELSE IF qty > 1 THEN "dr_qty" ELSE "dr_finalize"
\* handleUpholstery of run-local-debug.mjs: if (!picked) warn(...); if (qty
\* && qty > 1) await setQty(page, qty)
handleUpholsteryDebug(picked, qty) == IF qty > 1 THEN "dr_qty" ELSE "dr_finalize"

DRInit ==
  /\ script \in Scripts
  /\ \E task \in DriverTasks : queue = <<task>>
  /\ payload = EmptyPayload
  /\ pc = "dr_menu"
  /\ variants = <<>> /\ vi = 0 /\ tc = CsStart
  /\ keepOpen = FALSE
  /\ RunStart
  /\ PageIdle
  /\ SrvIdle /\ session = <<>> /\ active = {} /\ ret = "unset" /\ verified = "unset" /\ now = 0

\* clickService: await waitForMainMenu(page); const candidates = [ ... ]
DRWaitForMainMenu ==
  /\ pc = "dr_menu"
  /\ Emit("main-menu")
  /\ \/ /\ variants' \in ServiceOutcomes /\ vi' = 1
        /\ pc' = "dr_service" /\ UNCHANGED error
     \/ /\ pc' = "dr_catch" /\ error' = "Service menu did not render."
        /\ UNCHANGED <<variants, vi>>
  /\ UNCHANGED <<queueVars, pageVars, bookVars, envVars, tc, keepOpen, i, isLast, added, booked,
                 calls, exitCode, contextClosed, browserClosed>>

\* clickService: one pass of the loop over the candidates
DRClickServiceIter ==
  /\ pc = "dr_service"
  /\ vi <= Len(variants)
  /\ tc' = ClickServiceIter(tc, variants[vi], vi)
  /\ vi' = vi + 1
  /\ IF tc'.ret = "true"
     THEN pc' = "dr_custom" /\ Emit("service")
     ELSE UNCHANGED <<pc, trace>>
  /\ UNCHANGED <<queueVars, pageVars, bookVars, envVars, variants, keepOpen, i, isLast, added,
                 booked, calls, error, exitCode, contextClosed, browserClosed>>

\* clickService: the loop is exhausted: throw new Error(`Service button "${label}" not found`)
DRClickServiceThrow ==
  /\ pc = "dr_service"
  /\ vi > Len(variants)
  /\ tc' = [tc EXCEPT !.ret = "thrown", !.raised = TRUE]
  /\ error' = "Service button not found"
  /\ pc' = "dr_catch"
  /\ UNCHANGED <<queueVars, pageVars, bookVars, envVars, variants, vi, keepOpen, i, isLast, added,
                 booked, calls, trace, exitCode, contextClosed, browserClosed>>

\* handleCarpetCleaning: the bedrooms option by tryClick
DRCarpetCleaning ==
  /\ pc = "dr_custom" /\ Item.type = "carpet_cleaning"
  /\ \E picked \in ClickResults(BedroomShapes) :
       /\ trace' = Append(trace, <<i + 1, "bedrooms", picked>>)
       /\ pc' = IF script = Debug THEN handleCarpetCleaningDebug(picked)
                ELSE handleCarpetCleaning(picked)
  /\ error' = IF pc' = "dr_catch" THEN "Could not click bedrooms option." ELSE error
  /\ UNCHANGED <<queueVars, clickVars, pageVars, bookVars, envVars, keepOpen, i, isLast, added,
                 booked, calls, exitCode, contextClosed, browserClosed>>

\* handlePetStain: the add-on by tryClick, not fatal in any revision
DRPetStain ==
  /\ pc = "dr_custom" /\ Item.type = "pet_stain"
  /\ \E addon \in ClickResults(RoleText) : trace' = Append(trace, <<i + 1, "ps-add", addon>>)
  /\ pc' = "dr_finalize"
  /\ UNCHANGED <<queueVars, clickVars, pageVars, bookVars, envVars, keepOpen, i, isLast, added,
                 booked, calls, error, exitCode, contextClosed, browserClosed>>

\* handleUpholstery: the catalog item
DRUpholstery ==
  /\ pc = "dr_custom" /\ Item.type = "upholstery"
  /\ \E picked \in ClickResults(UpholsteryItemShapes) :
       /\ trace' = Append(trace, <<i + 1, "upholstery-item", picked>>)
       /\ pc' = CASE script = Main -> handleUpholstery(picked, Item.qty)
                  [] script = Almost -> handleUpholsteryAlmost(picked, Item.qty)
                  [] script = Debug -> handleUpholsteryDebug(picked, Item.qty)
  /\ error' = IF pc' = "dr_catch" THEN "Failed to select upholstery item" ELSE error
  /\ UNCHANGED <<queueVars, clickVars, pageVars, bookVars, envVars, keepOpen, i, isLast, added,
                 booked, calls, exitCode, contextClosed, browserClosed>>

\* handleUpholstery: await setQty(page, qty), which does not throw
DRSetQty ==
  /\ pc = "dr_qty"
  /\ \E qtySet \in {"true", "false"} : trace' = Append(trace, <<i + 1, "set-qty", qtySet>>)
  /\ pc' = "dr_finalize"
  /\ UNCHANGED <<queueVars, clickVars, pageVars, bookVars, envVars, keepOpen, i, isLast, added,
                 booked, calls, error, exitCode, contextClosed, browserClosed>>

\* handleCarpetStretching: the option by tryClick, not fatal in any revision
DRCarpetStretching ==
  /\ pc = "dr_custom" /\ Item.type = "carpet_stretching"
  /\ \E ok \in ClickResults(RoleOnly) : trace' = Append(trace, <<i + 1, "stretch", ok>>)
  /\ pc' = "dr_finalize"
  /\ UNCHANGED <<queueVars, clickVars, pageVars, bookVars, envVars, keepOpen, i, isLast, added,
                 booked, calls, error, exitCode, contextClosed, browserClosed>>

\* await finalizeThisService(page, payload, meta): it returns or throws
DRFinalize ==
  /\ pc = "dr_finalize"
  /\ Emit("finalize")
  /\ \/ pc' = "dr_returned" /\ UNCHANGED error
     \/ pc' = "dr_catch" /\ error' = "finalizeThisService"
  /\ UNCHANGED <<queueVars, clickVars, pageVars, bookVars, envVars, keepOpen, i, isLast, added,
                 booked, calls, exitCode, contextClosed, browserClosed>>

\* main: the driver has returned; the loop and the run end
DRReturn ==
  /\ pc = "dr_returned"
  /\ i' = i + 1
  /\ pc' = "dr_done"
  /\ UNCHANGED <<queueVars, clickVars, pageVars, bookVars, envVars, keepOpen, isLast, added,
                 booked, calls, trace, error, exitCode, contextClosed, browserClosed>>

\* main: catch (e) { ...; process.exitCode = 1 }
DRCatch ==
  /\ pc = "dr_catch"
  /\ exitCode' = 1
  /\ pc' = "dr_done"
  /\ UNCHANGED <<queueVars, clickVars, pageVars, bookVars, envVars, keepOpen, i, isLast, added,
                 booked, calls, trace, error, contextClosed, browserClosed>>

DRNext ==
  \/ DRWaitForMainMenu \/ DRClickServiceIter \/ DRClickServiceThrow
  \/ DRCarpetCleaning \/ DRPetStain \/ DRUpholstery \/ DRSetQty \/ DRCarpetStretching
  \/ DRFinalize \/ DRReturn \/ DRCatch
SpecDriver == DRInit /\ [][DRNext]_vars

(***************************************************************************)
(* Claims about the drivers.                                               *)
(***************************************************************************)
\* The steps of a driver after the service click.
DriverSteps == {"bedrooms", "ps-add", "upholstery-item", "stretch", "set-qty", "finalize"}
AfterMenu == pc \notin {"dr_menu"} /\ variants # <<>>
\* The first candidate of the clickService call that resolves and clicks, 0 when none.
FirstServiceClick ==
  IF \E j \in 1..Len(variants) : Clickable(variants[j])
  THEN CHOOSE j \in 1..Len(variants) :
         Clickable(variants[j]) /\ \A m \in 1..(j - 1) : ~Clickable(variants[m])
  ELSE 0

\* C23: clickService tries its candidates in declaration order and at most
\* one click succeeds, on the first candidate that can be clicked; when none
\* can it raises 'Service button ... not found', and then no customization
\* step and no finalizeThisService step of the task runs and the run ends
\* with exit code 1.
C23_ServiceClickOnceOrFatal ==
  AfterMenu =>
    /\ tc.counted = [j \in 1..(vi - 1) |-> j]
    /\ StrictlyIncreasing(tc.clicks)
    /\ Len(tc.clickOk) <= 1
    /\ tc.ret = "true" => tc.clickOk = <<FirstServiceClick>> /\ vi = FirstServiceClick + 1
    /\ tc.ret = "pending" => pc = "dr_service" /\ tc.clickOk = <<>>
    /\ tc.ret = "thrown" <=> error = "Service button not found"
    /\ tc.ret = "thrown" =>
         /\ FirstServiceClick = 0 /\ tc.clickOk = <<>>
         /\ tc.counted = [j \in 1..Len(ServiceCandidates) |-> j]
         /\ \A k \in 1..Len(trace) : trace[k][2] \notin DriverSteps \cup {"service"}
         /\ pc \in {"dr_catch", "dr_done"}
         /\ pc = "dr_done" => exitCode = 1
    /\ (\E k \in 1..Len(trace) : trace[k][2] \in DriverSteps) => tc.ret = "true"

\* C23 witness: no candidate of the service tile could be clicked, one of
\* them because its click failed, and the run ended with exit code 1.
C23_Witness ==
  /\ pc = "dr_done" /\ error = "Service button not found" /\ exitCode = 1
  /\ tc.clicks # <<>> /\ tc.clickOk = <<>>
  /\ trace = <<<<1, "main-menu">>>>

\* The upholstery item of the task could not be selected.
ItemNotPicked == \E k \in 1..Len(trace) : trace[k] = <<1, "upholstery-item", "false">>
\* The bedrooms option of the task could not be clicked.
BedroomsNotPicked == \E k \in 1..Len(trace) : trace[k] = <<1, "bedrooms", "false">>
FatalAt(msg) ==
  /\ error = msg
  /\ pc \in {"dr_catch", "dr_done"}
  /\ pc = "dr_done" => exitCode = 1
  /\ \A k \in 1..Len(trace) : trace[k][2] \notin {"set-qty", "finalize"}

\* C24: when the requested upholstery item cannot be selected the driver
\* raises before it sets a quantity and before finalizeThisService, so that
\* no 'Add to booking' and no 'Book Service' click is made for the task, and
\* the run ends with exit code 1.
C24_UpholsteryItemFatal ==
  ItemNotPicked => FatalAt("Failed to select upholstery item")

\* The statement of C24 for playwright_script.mjs and playwright_script-almost.mjs.
C24_MainAndAlmost ==
  (script # Debug /\ ItemNotPicked) => FatalAt("Failed to select upholstery item")

\* C27: in the carpet-cleaning driver a bedrooms option that cannot be
\* clicked raises nothing, and the driver goes on to finalizeThisService.
C27_BedroomsSoft ==
  BedroomsNotPicked =>
    /\ error # "Could not click bedrooms option."
    /\ LastStep = <<1, "bedrooms", "false">> => pc = "dr_finalize"
    /\ pc = "dr_done" => \E k \in 1..Len(trace) : trace[k] = <<1, "finalize">>

\* The statement of C27 for run-local-debug.mjs.
C27_DebugOnly ==
  (script = Debug /\ BedroomsNotPicked) =>
    /\ error # "Could not click bedrooms option."
    /\ LastStep = <<1, "bedrooms", "false">> => pc = "dr_finalize"
    /\ pc = "dr_done" => \E k \in 1..Len(trace) : trace[k] = <<1, "finalize">>

(***************************************************************************)
(* fillContactDetails field by field, in playwright_script.mjs and in the  *)
(* remote revision (unnamed/part_002).  page lists the fields whose input  *)
(* is on the page and can be filled; "consent" stands for the checkbox.    *)
(***************************************************************************)
\* The order in which playwright_script.mjs handles the fields.
ContactFields == <<"first_name", "last_name", "phone", "email", "street_address", "city",
                   "zipcode", "state", "consent">>
\* The order in which the remote revision handles them.
ContactFieldsRemote == <<"email", "first_name", "last_name", "phone", "street_address", "city",
                         "state", "zipcode", "consent">>
FieldsOf(scr) == IF scr = Remote THEN ContactFieldsRemote ELSE ContactFields
MaxMissing == 2
ContactValue == Str(<<"x">>)

\* playwright_script.mjs: await page.getByTestId(...).fill(value) and, for
\* the state, click, type and option.click(): a missing input makes the
\* await time out and throw; the consent checkbox goes through tryClick.
FillField(field, onPage) ==
  IF onPage THEN "filled" ELSE IF field = "consent" THEN "not-filled" ELSE "throws"

\* The remote revision: fillByTestId || fillByLabel || fillByPlaceholder ||
\* locator.fill().then(() => true).catch(() => false); if (!ok) console.warn(...)
FillFieldRemote(field, onPage) == IF onPage THEN "filled" ELSE "not-filled"

\* The fields the request asks to fill: if (first_name) ..., and the consent always.
Requested(field) == field = "consent" \/ Truthy(payload[field])

CInit ==
  /\ script \in {Main, Remote}
  /\ \E absent \in SUBSET ContactKeys :
       /\ Cardinality(absent) <= 1
       /\ payload = [k \in PayloadKeys |-> IF k \in ContactKeys \ absent THEN ContactValue ELSE Undef]
  /\ \E missing \in SUBSET SeqRange(ContactFields) :
       /\ Cardinality(missing) <= MaxMissing
       /\ page = SelectSeq(ContactFields, LAMBDA f : f \notin missing)
  /\ clicked = 0 /\ dt = NullDate
  /\ queue = <<>>
  /\ pc = "c_fill"
  /\ variants = <<>> /\ vi = 1 /\ tc = TcStart
  /\ keepOpen = FALSE
  /\ RunStart
  /\ SrvIdle /\ session = <<>> /\ active = {} /\ ret = "unset" /\ verified = "unset" /\ now = 0

\* One field of fillContactDetails
CFillField ==
  /\ pc = "c_fill"
  /\ vi <= Len(FieldsOf(script))
  /\ LET field == FieldsOf(script)[vi]
         outcome == IF script = Remote THEN FillFieldRemote(field, field \in SeqRange(page))
                    ELSE FillField(field, field \in SeqRange(page))
     IN IF ~Requested(field)
        THEN UNCHANGED <<trace, error, pc>>
        ELSE /\ trace' = Append(trace, <<vi, field, outcome>>)
             /\ IF outcome = "throws"
                THEN pc' = "c_thrown" /\ error' = "fillContactDetails"
                ELSE UNCHANGED <<pc, error>>
  /\ vi' = vi + 1
  /\ UNCHANGED <<queueVars, pageVars, bookVars, envVars, variants, tc, keepOpen, i, isLast, added,
                 booked, calls, exitCode, contextClosed, browserClosed>>

\* fillContactDetails returns: finalizeThisService goes on to the submit step
CReturn ==
  /\ pc = "c_fill"
  /\ vi > Len(FieldsOf(script))
  /\ pc' = "c_submit"
  /\ UNCHANGED <<queueVars, pageVars, bookVars, envVars, clickVars, keepOpen, i, isLast, added,
                 booked, calls, trace, error, exitCode, contextClosed, browserClosed>>

\* The exception leaves finalizeThisService and reaches the catch of main
CCatch ==
  /\ pc = "c_thrown"
  /\ exitCode' = 1
  /\ pc' = "c_failed"
  /\ UNCHANGED <<queueVars, pageVars, bookVars, envVars, clickVars, keepOpen, i, isLast, added,
                 booked, calls, trace, error, contextClosed, browserClosed>>

CNext == CFillField \/ CReturn \/ CCatch
SpecContact == CInit /\ [][CNext]_vars

\* The fields attempted so far.
Attempted == {trace[k][2] : k \in 1..Len(trace)}
\* The fill has ended, by a return or by an exception.
FillEnded == pc \in {"c_submit", "c_thrown", "c_failed"}

\* C26: each field of the contact form is filled best-effort: a field whose
\* input cannot be found or filled raises nothing, every other requested
\* field and the consent are still attempted, and the flow reaches the
\* submit step.
C26_FieldsBestEffort ==
  /\ error = ""
  /\ pc \in {"c_fill", "c_submit"}
  /\ FillEnded => \A field \in SeqRange(ContactFields) : Requested(field) => field \in Attempted

\* The statement of C26 for the remote revision.
C26_RemoteOnly ==
  script = Remote =>
    /\ error = ""
    /\ pc \in {"c_fill", "c_submit"}
    /\ FillEnded => \A field \in SeqRange(ContactFields) : Requested(field) => field \in Attempted

(***************************************************************************)
(* handleCarpetCleaning: the choice of the bedrooms option.  page lists    *)
(* the buttons shown; option is the bedroom count a button stands for, 0   *)
(* for a button that is not a bedrooms option.                             *)
(***************************************************************************)
\* The words of the patterns of map.
BedroomWord(key) ==
  CASE key = 2 -> <<"t", "w", "o">>
    [] key = 3 -> <<"t", "h", "r", "e", "e">>
    [] key = 4 -> <<"f", "o", "u", "r">>

\* const want = map[Number(bedrooms)] || map[4]: the key of the pattern taken
WantKey(bedrooms) == IF ~bedrooms.nan /\ bedrooms.n \in {2, 3, 4} THEN bedrooms.n ELSE 4

\* /two\s*\(\s*2\s*\)\s*bedrooms\s*house/i and the like, tested on a text
WantRe(key, text) ==
  LET P1 == ReSpaces(text, ReLit(text, 1..(Len(text) + 1), BedroomWord(key)))
      P2 == ReSpaces(text, ReLit(text, P1, <<"(">>))
      P3 == ReSpaces(text, ReLit(text, P2, NatToStr(key)))
      P4 == ReSpaces(text, ReLit(text, P3, <<")">>))
      P5 == ReSpaces(text, ReLit(text, P4, <<"b", "e", "d", "r", "o", "o", "m", "s">>))
  IN ReLit(text, P5, <<"h", "o", "u", "s", "e">>) # {}

\* `${want}`: the source text of the pattern, as String(want) gives it
WantSource(key) ==
  <<"/">> \o BedroomWord(key) \o <<"\\", "s", "*", "\\", "(", "\\", "s", "*">> \o NatToStr(key)
    \o <<"\\", "s", "*", "\\", ")", "\\", "s", "*", "b", "e", "d", "r", "o", "o", "m", "s", "\\", "s", "*", "h", "o", "u", "s", "e", "/", "i">>

\* `${bedrooms}`: String(bedrooms) of a number
BedroomsText(bedrooms) == IF bedrooms.nan THEN <<"N", "a", "N">> ELSE NatToStr(bedrooms.n)

\* :has-text("..."): the text occurs in the element, letters compared without case
HasText(text, t) == ReLit(text, 1..(Len(text) + 1), t) # {}

\* The buttons each candidate of handleCarpetCleaning of playwright_script.mjs
\* resolves to: { text: want }, { role: 'button', name: want },
\* `button:has-text("${bedrooms}")`, `button:has-text("${want}")`.
BedroomMatches(bedrooms, labels) ==
  LET byWant == {k \in 1..Len(labels) : WantRe(WantKey(bedrooms), labels[k].text)}
  IN <<byWant, byWant,
       {k \in 1..Len(labels) : HasText(labels[k].text, BedroomsText(bedrooms))},
       {k \in 1..Len(labels) : HasText(labels[k].text, WantSource(WantKey(bedrooms)))}>>

\* The buttons the two candidates of run-local-debug.mjs resolve to:
\* [{ text: want }] and [{ role: 'button', name: want }].
BedroomMatchesDebug(bedrooms, labels) ==
  LET byWant == {k \in 1..Len(labels) : WantRe(WantKey(bedrooms), labels[k].text)}
  IN <<byWant, byWant>>

\* The candidates with what the page does to them: count() is 0 when
\* nothing matches, and the click of each candidate succeeds or fails.
BedroomVariants(matches) ==
  {[j \in 1..Len(matches) |->
      Cand(BedroomShapes[j], IF matches[j] = {} THEN "zero" ELSE "one", c[j])] :
     c \in [1..Len(matches) -> {"ok", "fails"}]}

MaxRooms == 2
BedroomRequests == {Undef, Num(0), Num(1), Num(2), Num(3), Num(4), Num(5),
                    Str(<<"3">>), Str(<<"a", "b", "c">>)}
BedroomLabels ==
  {[text |-> <<"T", "w", "o", " ", "(", "2", ")", " ", "B", "e", "d", "r", "o", "o", "m", "s", " ", "h", "o", "u", "s", "e">>,
    option |-> 2],
   [text |-> <<"T", "h", "r", "e", "e", " ", "(", "3", ")", " ", "B", "e", "d", "r", "o", "o", "m", "s", " ", "h", "o", "u", "s", "e">>,
    option |-> 3],
   [text |-> <<"F", "o", "u", "r", " ", "(", "4", ")", " ", "B", "e", "d", "r", "o", "o", "m", "s", " ", "h", "o", "u", "s", "e">>,
    option |-> 4],
   [text |-> <<"F", "i", "v", "e", " ", "(", "5", ")", " ", "B", "e", "d", "r", "o", "o", "m", "s", " ", "h", "o", "u", "s", "e">>,
    option |-> 5],
   [text |-> <<"H", "a", "l", "l", "w", "a", "y", " ", "$", "3", "5">>,
    option |-> 0]}
BedroomPages ==
  {pg \in UNION {[1..n -> BedroomLabels] : n \in 0..MaxRooms} :
     \A a, b \in DOMAIN pg : a # b => pg[a] # pg[b]}

BInit ==
  /\ \E b \in BedroomRequests :
       payload = [EmptyPayload EXCEPT !["carpet_cleaning"] = Bool(TRUE), !["bedrooms"] = b]
  /\ page \in BedroomPages
  /\ clicked = 0 /\ dt = NullDate
  /\ queue = <<>>
  /\ pc = "b_init"
  /\ ClickIdle
  /\ keepOpen = FALSE
  /\ RunStart
  /\ EnvIdle

\* const queue = buildQueue(payload)
BBuildQueue ==
  /\ pc = "b_init"
  /\ queue' = buildQueue(payload)
  /\ pc' = "b_driver"
  /\ UNCHANGED <<payload, clickVars, pageVars, bookVars, envVars, keepOpen, i, isLast, added,
                 booked, calls, trace, error, exitCode, contextClosed, browserClosed>>

\* The button a finished tryClick call has clicked, 0 when none.
ClickedBy(call, matches) ==
  IF call.ret = "true" THEN First(matches[call.clickOk[1]]) ELSE 0

\* handleCarpetCleaning(page, item.bedrooms, ...) of playwright_script.mjs
BHandleCarpetCleaning ==
  /\ pc = "b_driver"
  /\ LET matches == BedroomMatches(Item.bedrooms, page)
     IN \E vs \in BedroomVariants(matches) :
          /\ variants' = vs
          /\ tc' = tryClick(vs)
          /\ clicked' = ClickedBy(tc', matches)
  /\ pc' = IF tc'.ret = "true" THEN "b_main" ELSE "b_thrown"
  /\ error' = IF tc'.ret = "true" THEN error ELSE "Could not click bedrooms option."
  /\ UNCHANGED <<queueVars, envVars, bookVars, vi, page, dt, keepOpen, i, isLast, added, booked,
                 calls, trace, exitCode, contextClosed, browserClosed>>

\* handleCarpetCleaning of run-local-debug.mjs: tryClick([{ text: want }]) ||
\* tryClick([{ role: 'button', name: want }]), taken as one list of two
BHandleCarpetCleaningDebug ==
  /\ pc = "b_driver"
  /\ LET matches == BedroomMatchesDebug(Item.bedrooms, page)
     IN \E vs \in BedroomVariants(matches) :
          /\ variants' = vs
          /\ tc' = tryClick(vs)
          /\ clicked' = ClickedBy(tc', matches)
  /\ pc' = "b_debug"
  /\ UNCHANGED <<queueVars, envVars, bookVars, vi, page, dt, keepOpen, i, isLast, added, booked,
                 calls, trace, error, exitCode, contextClosed, browserClosed>>

BNext == BBuildQueue \/ BHandleCarpetCleaning \/ BHandleCarpetCleaningDebug
SpecBedrooms == BInit /\ [][BNext]_vars

\* The option the request designates: its own count when that is 2, 3 or 4,
\* and 4 for every other value.
DesignatedOption ==
  LET b == payload["bedrooms"]
      n == JsNumber(b)
  IN IF b.t \in {"num", "str"} /\ ~n.nan /\ n.n \in {2, 3, 4} THEN n.n ELSE 4
BedroomsDone == pc \in {"b_main", "b_thrown", "b_debug"}

\* C28: the carpet-cleaning driver takes the two-, three- or four-bedroom
\* pattern for a count of 2, 3 or 4 and the four-bedroom pattern for every
\* other value, the only bedrooms option it clicks is the one so designated,
\* and buildQueue makes a missing bedrooms value 4.
C28_BedroomOptionDesignated ==
  /\ (pc # "b_init" /\ payload["bedrooms"] = Undef) => queue[1].bedrooms = [nan |-> FALSE, n |-> 4]
  /\ pc # "b_init" => WantKey(queue[1].bedrooms) = DesignatedOption
  /\ (BedroomsDone /\ clicked # 0 /\ page[clicked].option # 0) =>
       page[clicked].option = DesignatedOption

\* The statement of C28 for the mapping, for the two candidates built from
\* the pattern and for run-local-debug.mjs, which has no other candidate.
C28_PatternCandidatesOnly ==
  /\ (pc # "b_init" /\ payload["bedrooms"] = Undef) => queue[1].bedrooms = [nan |-> FALSE, n |-> 4]
  /\ pc # "b_init" => WantKey(queue[1].bedrooms) = DesignatedOption
  /\ (BedroomsDone /\ clicked # 0 /\ tc.clickOk[1] \in {1, 2}) =>
       page[clicked].option = DesignatedOption

(***************************************************************************)
(* setQty and its call by handleUpholstery.                                *)
(***************************************************************************)
\* const locs = [...]: the candidates for the quantity input, in order
QtyLocs == <<"input[type=number]", "input[role=spinbutton]", "label qty|quantity",
             "role spinbutton qty|quantity">>

\* What the page does to one candidate: count() is 0, count() throws,
\* fill throws, fill and Tab succeed, fill succeeds and the Tab press throws.
LocOutcomes == {"zero", "count-throws", "fill-throws", "ok", "tab-throws"}

MaxQty == 11
\* The qty handed to setQty when it is called on its own.
QtyInputs == {Undef, Null} \cup {Num(n) : n \in (-1)..MaxQty}
\* The qty of an upholstery task of the queue: normInt(p[key]) > 0.
QtyOfTasks == {Num(n) : n \in 1..MaxQty}

\* A guard that stops at zero only.
QtyGuardZeroOnly(qty) == ~Truthy(qty)

\* if (!qty || qty <= 0) return false;
QtyGuard(qty) == ~Truthy(qty) \/ (qty.t = "num" /\ qty.n <= 0)

\* handleUpholstery: if (qty && qty > 1) { ... await setQty(page, qty) ... }
NeedsQty(qty) == Truthy(qty) /\ qty.t = "num" /\ qty.n > 1

\* A driver that gives the task up when the quantity could not be set.
AfterSetQtyFatal(qtySet) == IF qtySet = "false" THEN "q_thrown" ELSE "q_finalize"

\* handleUpholstery after setQty has returned qtySet: a warning when it is
\* false, then waitIdle, randomDelay and finalizeThisService either way.
AfterSetQty(qtySet) == "q_finalize"

\* The caller is handleUpholstery (and not a call of setQty on its own).
FromDriver == pc = "q_upholstery" \/ (calls # <<>> /\ calls[1] = "handleUpholstery")

QInitQty ==
  /\ RunStart /\ PageIdle /\ EnvIdle /\ payload = EmptyPayload /\ keepOpen = FALSE
  /\ vi = 0 /\ tc = TcStart
  /\ pc \in {"q_upholstery", "q_call"}
  /\ \E qty \in IF pc = "q_upholstery" THEN QtyOfTasks ELSE QtyInputs :
       queue = <<[type |-> "upholstery", qty |-> qty]>>
  /\ variants \in [1..Len(QtyLocs) -> LocOutcomes]

\* handleUpholstery, from the item picked to the call of setQty or past it
QHandleUpholstery ==
  /\ pc = "q_upholstery"
  /\ calls' = Append(calls, "handleUpholstery")
  /\ pc' = IF NeedsQty(queue[1].qty) THEN "q_call" ELSE "q_finalize"
  /\ UNCHANGED <<queueVars, clickVars, pageVars, bookVars, envVars, keepOpen, i, isLast, added,
                 booked, trace, error, exitCode, contextClosed, browserClosed>>

\* setQty: the guard on qty
QSetQtyGuard ==
  /\ pc = "q_call"
  /\ calls' = Append(calls, "setQty")
  /\ IF QtyGuard(queue[1].qty)
       THEN ret' = "false" /\ pc' = "q_returned" /\ vi' = vi
       ELSE ret' = ret /\ pc' = "q_loop" /\ vi' = 1
  /\ UNCHANGED <<queueVars, variants, tc, pageVars, bookVars, srvVars, script, session, active, verified, now,
                 keepOpen, i, isLast, added, booked, trace, error, exitCode, contextClosed,
                 browserClosed>>

\* setQty: one turn of for (const v of locs) { try { ... } catch {} }
QSetQtyLoc ==
  /\ pc = "q_loop" /\ vi <= Len(QtyLocs)
  /\ LET v == variants[vi]
         counted == Append(trace, <<vi, "count", <<>>>>)
         filled == Append(counted, <<vi, "fill", JsString(queue[1].qty)>>)
     IN CASE v \in {"zero", "count-throws"} ->
               trace' = counted /\ vi' = vi + 1 /\ ret' = ret /\ pc' = pc
          [] v = "fill-throws" ->
               trace' = Append(counted, <<vi, "fill-failed", JsString(queue[1].qty)>>)
               /\ vi' = vi + 1 /\ ret' = ret /\ pc' = pc
          [] v \in {"ok", "tab-throws"} ->
               trace' = Append(filled, <<vi, "press", <<"T", "a", "b">>>>)
               /\ vi' = vi /\ ret' = "true" /\ pc' = "q_returned"
  /\ UNCHANGED <<queueVars, variants, tc, pageVars, bookVars, srvVars, script, session, active, verified, now,
                 keepOpen, i, isLast, added, booked, calls, error, exitCode, contextClosed,
                 browserClosed>>

\* setQty: warn('Could not set quantity; proceeding.'); return false;
QSetQtyGiveUp ==
  /\ pc = "q_loop" /\ vi > Len(QtyLocs)
  /\ ret' = "false" /\ pc' = "q_returned"
  /\ UNCHANGED <<queueVars, clickVars, pageVars, bookVars, srvVars, script, session, active, verified, now,
                 keepOpen, i, isLast, added, booked, calls, trace, error, exitCode,
                 contextClosed, browserClosed>>

\* handleUpholstery: const qtySet = await setQty(page, qty); if (!qtySet) warn(...)
QAfterSetQty ==
  /\ pc = "q_returned" /\ FromDriver
  /\ pc' = AfterSetQty(ret)
  /\ error' = IF pc' = "q_thrown" THEN "Could not set quantity" ELSE error
  /\ UNCHANGED <<queueVars, clickVars, pageVars, bookVars, envVars, keepOpen, i, isLast, added,
                 booked, calls, trace, exitCode, contextClosed, browserClosed>>

\* handleUpholstery: await finalizeThisService(page, payload, meta)
QFinalize ==
  /\ pc = "q_finalize"
  /\ calls' = Append(calls, "finalizeThisService")
  /\ pc' = "q_done"
  /\ UNCHANGED <<queueVars, clickVars, pageVars, bookVars, envVars, keepOpen, i, isLast, added,
                 booked, trace, error, exitCode, contextClosed, browserClosed>>

QtyNext ==
  \/ QHandleUpholstery
  \/ QSetQtyGuard
  \/ QSetQtyLoc
  \/ QSetQtyGiveUp
  \/ QAfterSetQty
  \/ QFinalize

SpecQty == QInitQty /\ [][QtyNext]_vars

(***************************************************************************)
(* Claims about setQty.                                                    *)
(***************************************************************************)
SetQtyCalled == pc = "q_call" \/ \E k \in 1..Len(calls) : calls[k] = "setQty"
SetQtyReturned == SetQtyCalled /\ pc \notin {"q_call", "q_loop"}

\* The candidates whose input can be filled, and the first of them.
Fillable == {k \in 1..Len(QtyLocs) : variants[k] \in {"ok", "tab-throws"}}
FirstFillable == CHOOSE k \in Fillable : \A j \in Fillable : k <= j

\* The fills that succeeded and the key presses, as the page saw them.
Fills == {k \in 1..Len(trace) : trace[k][2] = "fill"}
Presses == {k \in 1..Len(trace) : trace[k][2] = "press"}

\* A string is the decimal writing of n: digits only, no leading zero, value n.
IsDecimalOf(s, n) ==
  /\ s # <<>> /\ \A k \in 1..Len(s) : IsDigit(s[k])
  /\ (Len(s) > 1 => s[1] # "0")
  /\ DigitsVal(s) = n

\* C29: setQty touches nothing on the page and returns false when qty is
\* missing or <= 0; for qty > 0 it tries the candidates in order, fills the
\* first one that can be filled with the decimal string of qty, presses Tab
\* and returns true, or returns false without raising when none can be
\* filled; handleUpholstery calls it exactly when the task's qty is > 1 and
\* goes on to finalizeThisService whatever it returned.
C29_SetQty ==
  LET qty == queue[1].qty
      positive == qty.t = "num" /\ qty.n > 0
  IN /\ pc # "q_thrown"
     /\ (SetQtyCalled /\ ~positive) => trace = <<>> /\ (SetQtyReturned => ret = "false")
     /\ \A k \in 1..Len(trace) : \A j \in 1..Len(trace) : k < j => trace[k][1] <= trace[j][1]
     /\ (SetQtyReturned /\ positive /\ Fillable # {}) =>
          /\ ret = "true"
          /\ Fills = {Len(trace) - 1} /\ Presses = {Len(trace)}
          /\ trace[Len(trace) - 1][1] = FirstFillable /\ trace[Len(trace)][1] = FirstFillable
          /\ IsDecimalOf(trace[Len(trace) - 1][3], qty.n)
          /\ trace[Len(trace)][3] = <<"T", "a", "b">>
     /\ (SetQtyReturned /\ positive /\ Fillable = {}) =>
          ret = "false" /\ Fills = {} /\ Presses = {}
     /\ (FromDriver /\ pc # "q_upholstery") => (SetQtyCalled <=> (qty.t = "num" /\ qty.n > 1))
     /\ (FromDriver /\ pc = "q_done") => calls[Len(calls)] = "finalizeThisService"

\* setQty has returned false to handleUpholstery, which went on to
\* finalizeThisService; a two-digit quantity was filled by the third candidate.
C29_Witness ==
  \/ /\ FromDriver /\ pc = "q_done" /\ SetQtyCalled /\ ret = "false"
  \/ /\ SetQtyReturned /\ ret = "true" /\ queue[1].qty = Num(10)
     /\ FirstFillable = 3 /\ variants[1] = "fill-throws"

(***************************************************************************)
(* Claims about the session and the order of the drivers.                  *)
(***************************************************************************)
\* The objects main creates, in the order it creates them.
SessionObjects == <<"browser", "context", "page">>
\* main has not yet created its page.
SettingUp == pc \in {"launch", "context", "page"}
Created(object) == Cardinality({k \in 1..Len(session) : session[k] = object})

\* Nothing is created twice, every object is there once the page has been
\* created, at most one driver is under way, it is the driver of the task
\* of the loop index, and the steps of the tasks do not interleave.
OneSessionOneDriver ==
  /\ \A k \in 1..Len(SessionObjects) : Created(SessionObjects[k]) <= 1
  /\ ~SettingUp => \A k \in 1..Len(SessionObjects) : Created(SessionObjects[k]) = 1
  /\ Cardinality(active) <= 1
  /\ active \subseteq {i + 1}
  /\ \A k \in 1..Len(calls) : calls[k].task >= k /\ (k > 1 => calls[k - 1].task < calls[k].task)
  /\ \A a \in 1..Len(trace) : \A b \in 1..Len(trace) :
       (a < b /\ trace[a][1] # 0 /\ trace[b][1] # 0) => trace[a][1] <= trace[b][1]

\* A driver is called only when no driver is under way, and by then every
\* driver called before it has returned.
DriverStartsAlone ==
  Len(calls') > Len(calls) =>
    /\ active = {}
    /\ active' = {calls'[Len(calls')].task}
    /\ ~SettingUp

MaxReq == 2
MaxBody == 2
MaxChunks == 2
Requests == 1..MaxReq

\* The characters a request body is made of here.
BodyChars == {"{", "}", "1", " "}
Bodies == UNION {[1..n -> BodyChars] : n \in 0..MaxBody}

\* JSON.parse(body) on these bodies: white space around the value is
\* skipped; the value is an integer literal without a leading zero or an
\* object without members; anything else throws a SyntaxError.
JsonParse(s) ==
  LET t == Trim(s)
  IN IF t # <<>> /\ (\A k \in 1..Len(t) : IsDigit(t[k])) /\ (Len(t) > 1 => t[1] # "0")
       THEN [ok |-> TRUE, v |-> Num(DigitsVal(t))]
     ELSE IF Len(t) >= 2 /\ t[1] = "{" /\ t[Len(t)] = "}"
             /\ \A k \in 2..(Len(t) - 1) : IsSpace(t[k])
       THEN [ok |-> TRUE, v |-> Str(<<"{", "}">>)]
     ELSE [ok |-> FALSE, v |-> Undef]

\* const payload = body ? JSON.parse(body) : {};  (an object is written as
\* the string of its JSON text)
PayloadOfBody(s) == IF s = <<>> THEN [ok |-> TRUE, v |-> Str(<<"{", "}">>)] ELSE JsonParse(s)

\* PAYLOAD_JSON: JSON.stringify(payload || {})
PayloadJson(v) == IF v.t = "num" /\ v.n # 0 THEN NatToStr(v.n) ELSE <<"{", "}">>

\* The exit codes 'close' reports: 0, 1, and null for a child ended by a signal.
ExitCodes == {Num(0), Num(1), Null}
Streams == {"o", "e"}
\* The text of the k-th chunk a child writes: which child, which stream, which chunk.
Chunk(r, stream, k) == <<Digits[r + 1], stream, Digits[k + 1]>>

NoChild == [spawned |-> 0, PAYLOAD_JSON |-> <<>>, emitted |-> <<>>, closed |-> FALSE,
            code |-> Undef]

RECURSIVE Join(_)
\* logs.join('')
Join(l) == IF l = <<>> THEN <<>> ELSE Head(l) \o Join(Tail(l))

\* A status that takes every falsy code for success.
StatusOfFalsy(code) == IF ~Truthy(code) THEN 200 ELSE 500

\* res.writeHead(code === 0 ? 200 : 500, ...)
StatusOf(code) == IF code = Num(0) THEN 200 ELSE 500

\* One logs array for the whole process, shared by every call of runJob.
LogsPushShared(l, r, s) == [k \in DOMAIN l |-> Append(l[k], s)]

\* logs.push(s) on the logs of the call of runJob that spawned the child
LogsPush(l, r, s) == [l EXCEPT ![r] = Append(@, s)]

SrvInit ==
  /\ QueueIdle /\ ClickIdle /\ RunStart /\ PageIdle /\ keepOpen = FALSE
  /\ script = "unnamed/part_000" /\ session = <<>> /\ active = {}
  /\ verified = "unset" /\ now = 0 /\ ret = "unset"
  /\ pc = "listening"
  /\ body \in [Requests -> Bodies]
  /\ child = [r \in Requests |-> NoChild]
  /\ logs = [r \in Requests |-> <<>>]
  /\ res = [r \in Requests |-> <<>>]
  /\ req = [r \in Requests |-> "receiving"]
  /\ env = <<>> /\ fetched = <<>>

\* req.on('end'): the body is parsed; a SyntaxError is answered with 400,
\* otherwise runJob spawns the child and the handler awaits it
SrvEnd(r) ==
  /\ req[r] = "receiving"
  /\ LET parsed == PayloadOfBody(body[r])
     IN IF parsed.ok
          THEN /\ child' = [child EXCEPT ![r] = [NoChild EXCEPT !.spawned = child[r].spawned + 1,
                                                                !.PAYLOAD_JSON = PayloadJson(parsed.v)]]
               /\ req' = [req EXCEPT ![r] = "awaiting"]
               /\ res' = res
          ELSE /\ res' = [res EXCEPT ![r] = Append(@, [status |-> 400, ok |-> FALSE,
                                                       code |-> Undef, logs |-> <<>>])]
               /\ req' = [req EXCEPT ![r] = "done"]
               /\ child' = child
  /\ UNCHANGED <<queueVars, clickVars, pageVars, bookVars, script, session, active, verified,
                 now, ret, body, logs, env, fetched, pc, keepOpen, i, isLast, added, booked,
                 calls, trace, error, exitCode, contextClosed, browserClosed>>

\* child.stdout.on('data') and child.stderr.on('data'): the chunk goes to the
\* output of the server and to the logs of this call
SrvData(r) ==
  /\ req[r] = "awaiting" /\ ~child[r].closed
  /\ Len(child[r].emitted) < MaxChunks
  /\ \E stream \in Streams :
       LET s == Chunk(r, stream, Len(child[r].emitted) + 1)
       IN /\ child' = [child EXCEPT ![r].emitted = Append(@, s)]
          /\ trace' = Append(trace, s)
          /\ logs' = LogsPush(logs, r, s)
  /\ UNCHANGED <<queueVars, clickVars, pageVars, bookVars, script, session, active, verified,
                 now, ret, body, res, env, req, fetched, pc, keepOpen, i, isLast, added,
                 booked, calls, error, exitCode, contextClosed, browserClosed>>

\* child.on('close'): resolve({ code, logs: logs.join('') }); the handler
\* that awaits it writes the head and the body of the response
SrvClose(r) ==
  /\ req[r] = "awaiting" /\ ~child[r].closed
  /\ \E code \in ExitCodes :
       /\ child' = [child EXCEPT ![r].closed = TRUE, ![r].code = code]
       /\ res' = [res EXCEPT ![r] = Append(@, [status |-> StatusOf(code), ok |-> code = Num(0),
                                               code |-> code, logs |-> Join(logs[r])])]
  /\ req' = [req EXCEPT ![r] = "done"]
  /\ UNCHANGED <<queueVars, clickVars, pageVars, bookVars, script, session, active, verified,
                 now, ret, body, logs, env, fetched, pc, keepOpen, i, isLast, added, booked,
                 calls, trace, error, exitCode, contextClosed, browserClosed>>

SrvNext ==
  \/ \E r \in Requests : SrvEnd(r)
  \/ \E r \in Requests : SrvData(r)
  \/ \E r \in Requests : SrvClose(r)

SpecServer == SrvInit /\ [][SrvNext]_vars

RECURSIVE ChunksOf(_, _)
ChunksOf(r, t) ==
  IF t = <<>> THEN <<>>
  ELSE (IF Head(t)[1] = Digits[r + 1] THEN <<Head(t)>> ELSE <<>>) \o ChunksOf(r, Tail(t))

\* C40: however the requests interleave, each has a child of its own, its
\* response carries the chunks of that child and no other, in the order they
\* were written, with that child's exit code, and it is written once and
\* only after that child has closed.
C40_OwnChildOnly ==
  \A r \in Requests :
    /\ Len(res[r]) <= 1
    /\ child[r].spawned <= 1
    /\ logs[r] = ChunksOf(r, trace)
    /\ (res[r] # <<>> /\ child[r].spawned = 1) =>
         /\ child[r].closed
         /\ res[r][1].code = child[r].code
         /\ res[r][1].logs = Join(ChunksOf(r, trace))
    /\ (child[r].spawned = 1 /\ ~child[r].closed) => res[r] = <<>>

\* Two children wrote in turns (1, 2, 1, 2) and both requests have been answered.
C40_Witness ==
  /\ \A r \in Requests : req[r] = "done" /\ child[r].spawned = 1
  /\ Len(trace) = 4
  /\ trace[1][1] = "1" /\ trace[2][1] = "2" /\ trace[3][1] = "1" /\ trace[4][1] = "2"
  /\ res[1][1].code # res[2][1].code

(***************************************************************************)
(* The webhook relay (unnamed/part_003): app.post("/").                    *)
(***************************************************************************)
MaxSecret == 2
SecretChars == {"a", "b"}
SecretStrings == UNION {[1..n -> SecretChars] : n \in 0..MaxSecret}
\* process.env.WEBHOOK_SECRET, and the X-Webhook-Secret header of a request
\* (req.header gives undefined when the request has none).
SecretValues == {Undef} \cup {Str(x) : x \in SecretStrings}
\* process.env.RUNNER_URL
RunnerUrlValues == {Undef, Str(<<>>), Str(<<"u">>)}

\* x || "" and x || "wss://api.browsercat.com/connect" of the configuration
OrString(v, default) == IF Truthy(v) THEN v.s ELSE default
WEBHOOK_SECRET == OrString(env.WEBHOOK_SECRET, <<>>)
RUNNER_URL == OrString(env.RUNNER_URL, <<"w", "s", "s">>)

\* A relay whose check is off when no secret is configured.
UnauthorizedUnlessUnset(secret, sig) == secret # <<>> /\ sig # Str(secret)

\* if (!WEBHOOK_SECRET || sig !== WEBHOOK_SECRET)
Unauthorized(secret, sig) == secret = <<>> \/ sig # Str(secret)

\* What fetch and the runner do: a 2xx answer, another answer, a rejection.
FetchOutcomes == {"ok", "not-ok", "rejected"}

RelayInit ==
  /\ QueueIdle /\ ClickIdle /\ RunStart /\ PageIdle /\ keepOpen = FALSE
  /\ script = "unnamed/part_003" /\ session = <<>> /\ active = {}
  /\ verified = "unset" /\ now = 0 /\ ret = "unset"
  /\ body = <<>> /\ child = <<>> /\ logs = <<>>
  /\ pc = "w_auth"
  /\ \E secret \in SecretValues, url \in RunnerUrlValues :
       env = [WEBHOOK_SECRET |-> secret, RUNNER_URL |-> url]
  /\ \E sig \in SecretValues : req = [sig |-> sig]
  /\ res = <<>> /\ fetched = <<>>

\* 1) the shared secret; 3) if (!RUNNER_URL) the payload is only acknowledged
RelayAuth ==
  /\ pc = "w_auth"
  /\ IF Unauthorized(WEBHOOK_SECRET, req.sig)
       THEN res' = Append(res, 401) /\ pc' = "w_done"
     ELSE IF RUNNER_URL = <<>>
       THEN res' = Append(res, 200) /\ pc' = "w_done"
     ELSE res' = res /\ pc' = "w_fetch"
  /\ UNCHANGED <<queueVars, clickVars, pageVars, bookVars, script, session, active, verified,
                 now, ret, body, child, logs, env, req, fetched, keepOpen, i, isLast, added,
                 booked, calls, trace, error, exitCode, contextClosed, browserClosed>>

\* const r = await fetch(RUNNER_URL, ...): 200 when r.ok, 502 when not, and
\* 500 from the catch when the fetch is rejected
RelayFetch ==
  /\ pc = "w_fetch"
  /\ fetched' = Append(fetched, RUNNER_URL)
  /\ \E r \in FetchOutcomes :
       res' = Append(res, CASE r = "ok" -> 200 [] r = "not-ok" -> 502 [] r = "rejected" -> 500)
  /\ pc' = "w_done"
  /\ UNCHANGED <<queueVars, clickVars, pageVars, bookVars, script, session, active, verified,
                 now, ret, body, child, logs, env, req, keepOpen, i, isLast, added, booked,
                 calls, trace, error, exitCode, contextClosed, browserClosed>>

RelayNext == RelayAuth \/ RelayFetch

SpecRelay == RelayInit /\ [][RelayNext]_vars

\* The header is the configured secret, and one is configured.
SecretPresented ==
  /\ env.WEBHOOK_SECRET \notin {Undef, Str(<<>>)}
  /\ req.sig = env.WEBHOOK_SECRET

DrawerWays == <<"drawer-close", "drawer-close2", "click-away", "Escape">>
\* The candidate lists of the three tryClick calls among them.
DrawerShapes == <<RoleOnly, TwoStrings, TextOnly>>

\* page.keyboard.press('Escape') on its own: a rejection leaves the function.
EscapeBare(pressed) == IF pressed = "resolved" THEN "true" ELSE "raised"

\* page.keyboard.press('Escape').then(() => true).catch(() => false)
EscapeResult(pressed) == IF pressed = "resolved" THEN "true" ELSE "false"

\* What one way can give: tryClick returns true or false, and so does the
\* Escape chain.
WayResults(way) ==
  IF way <= Len(DrawerShapes) THEN ClickResults(DrawerShapes[way])
  ELSE {EscapeResult(pressed) : pressed \in {"resolved", "rejected"}}

\* The stages of the tail, in the order of the code.
TailStages == <<"f_drawer1", "f_add", "f_drawer2", "f_book">>

FInit ==
  /\ QueueIdle /\ RunStart /\ PageIdle /\ EnvIdle
  /\ keepOpen \in BOOLEAN
  /\ variants = <<>> /\ tc = TcStart
  /\ vi = 1
  /\ pc = "f_drawer1"

\* closeCartDrawerIfOpen: one operand of the || chain; the chain stops at the
\* first true (then waitIdle) and after the last operand
FDrawerWay ==
  /\ pc \in {"f_drawer1", "f_drawer2"} /\ vi <= Len(DrawerWays)
  /\ \E r \in WayResults(vi) :
       /\ trace' = Append(trace, <<pc, DrawerWays[vi], r>>)
       /\ IF r = "raised" THEN pc' = "f_thrown" /\ vi' = vi
          ELSE IF r = "true" \/ vi = Len(DrawerWays)
            THEN pc' = (IF pc = "f_drawer1" THEN "f_add" ELSE "f_book") /\ vi' = 1
          ELSE pc' = pc /\ vi' = vi + 1
  /\ UNCHANGED <<queueVars, variants, tc, pageVars, bookVars, envVars, keepOpen, i, isLast,
                 added, booked, calls, error, exitCode, contextClosed, browserClosed>>

\* const added = await tryClick(page, addToBookingSelectors, 'add-to-booking');
\* a failure is logged (the page.evaluate of the log is inside try/catch)
FAddToBooking ==
  /\ pc = "f_add"
  /\ added' \in ClickResults(AddToBookingShapes)
  /\ trace' = Append(trace, <<pc, "add-to-booking", added'>>)
  /\ pc' = "f_drawer2"
  /\ UNCHANGED <<queueVars, clickVars, pageVars, bookVars, envVars, keepOpen, i, isLast,
                 booked, calls, error, exitCode, contextClosed, browserClosed>>

\* const booked = await tryClick(page, bookServiceSelectors, 'book-service');
\* if (!booked) { ... throw new Error('Could not reach contact details ...') }
FBookService ==
  /\ pc = "f_book"
  /\ booked' \in ClickResults(BookServiceShapes)
  /\ trace' = Append(trace, <<pc, "book-service", booked'>>)
  /\ IF booked' = "true" THEN pc' = "f_booked" /\ error' = error
     ELSE pc' = "f_thrown" /\ error' = BookServiceError
  /\ UNCHANGED <<queueVars, clickVars, pageVars, bookVars, envVars, keepOpen, i, isLast,
                 added, calls, exitCode, contextClosed, browserClosed>>

FNext == FDrawerWay \/ FAddToBooking \/ FBookService

SpecTail == FInit /\ [][FNext]_vars

\* The position of a stage in the order of the code.
StageIndex(stage) == CHOOSE k \in 1..Len(TailStages) : TailStages[k] = stage
\* The steps of the trace that belong to a stage.
StepsOf(stage) == {k \in 1..Len(trace) : trace[k][1] = stage}

\* C33: the tail runs drawer dismissal, 'Add to booking', drawer dismissal,
\* Book Service in this order; Book Service is not attempted before the
\* second dismissal has ended; a dismissal tries its four ways in order
\* until one succeeds and never raises, whatever each way gives.
C33_TailOrder ==
  /\ \A a \in 1..Len(trace) : \A b \in 1..Len(trace) :
       a < b => StageIndex(trace[a][1]) <= StageIndex(trace[b][1])
  /\ Cardinality(StepsOf("f_add")) <= 1 /\ Cardinality(StepsOf("f_book")) <= 1
  /\ StepsOf("f_add") # {} => StepsOf("f_drawer1") # {}
  /\ StepsOf("f_book") # {} => StepsOf("f_add") # {} /\ StepsOf("f_drawer2") # {}
  /\ \A d \in {"f_drawer1", "f_drawer2"} :
       LET steps == StepsOf(d)
       IN /\ Cardinality(steps) <= Len(DrawerWays)
          /\ \A k \in steps :
               /\ trace[k][2] = DrawerWays[Cardinality({j \in steps : j <= k})]
               /\ trace[k][3] \in {"true", "false"}
               /\ (trace[k][3] = "true" => \A j \in steps : j <= k)
          /\ (pc \in {"f_booked", "f_thrown"} \/ StageIndex(pc) > StageIndex(d)) =>
               \E k \in steps : trace[k][3] = "true" \/ trace[k][2] = "Escape"
  /\ pc = "f_thrown" => trace[Len(trace)] = <<"f_book", "book-service", "false">>

\* Book Service has been clicked after a first dismissal that only the
\* Escape key achieved, a failed 'Add to booking' and a second dismissal in
\* which all four ways failed.
C33_Witness ==
  /\ pc = "f_booked" /\ added = "false"
  /\ Cardinality(StepsOf("f_drawer1")) = 4 /\ Cardinality(StepsOf("f_drawer2")) = 4
  /\ \E k \in StepsOf("f_drawer1") : trace[k] = <<"f_drawer1", "Escape", "true">>
  /\ \A k \in StepsOf("f_drawer2") : trace[k][3] = "false"

(***************************************************************************)
(* The checkout steps of finalizeThisService (last task), with the result  *)
(* of every step.                                                          *)
(***************************************************************************)
\* The steps in the order of the code.
CheckoutOrder == <<"contact-fill", "contacts-submit", "calendar-day", "timeframe",
                   "schedule-next", "final-book", "verify">>
\* appointment_date and time_frame_start of the payload: missing, empty, given.
CheckoutDates == {Undef, Str(<<>>), Str(<<"1", "2", "/", "2", "5", "/", "2", "0", "2", "5">>)}
CheckoutTimes == {Undef, Str(<<>>), Str(<<"2", ":", "0", "0", " ", "P", "M">>)}

\* A schedule page whose Next click must succeed.
AfterScheduleNextFatal(clickedNext) == IF clickedNext = "true" THEN "k_final" ELSE "k_thrown"

\* await tryClick(page, [...], 'schedule-next'): the result is not looked at
AfterScheduleNext(clickedNext) == "k_final"

KInit ==
  /\ ClickIdle /\ RunStart /\ PageIdle /\ EnvIdle /\ keepOpen \in BOOLEAN
  /\ \E date \in CheckoutDates, time \in CheckoutTimes :
       payload = [EmptyPayload EXCEPT !["carpet_stretching"] = Bool(TRUE),
                                      !["appointment_date"] = date,
                                      !["time_frame_start"] = time]
  /\ queue = buildQueue(payload)
  /\ pc = "k_fill"

KStep(tag, result) == trace' = Append(trace, <<1, tag, result>>)

\* await fillContactDetails(page, payload): its bare awaited fills can throw
KFillContactDetails ==
  /\ pc = "k_fill"
  /\ \E filled \in {"returned", "thrown"} :
       /\ KStep("contact-fill", filled)
       /\ pc' = IF filled = "returned" THEN "k_submit" ELSE "k_thrown"
  /\ error' = IF pc' = "k_thrown" THEN "fillContactDetails" ELSE error
  /\ UNCHANGED <<queueVars, clickVars, pageVars, bookVars, envVars, keepOpen, i, isLast, added,
                 booked, calls, exitCode, contextClosed, browserClosed>>

\* const submitted = tryClick(Submit) || tryClick(Continue/Next); if (!submitted) throw
KSubmitContact ==
  /\ pc = "k_submit"
  /\ \E r1 \in ClickResults(RoleText), r2 \in ClickResults(RoleText) :
       /\ KStep("contacts-submit", OrElse(r1, r2))
       /\ pc' = IF AfterSubmit(OrElse(r1, r2)) = "date" THEN "k_date" ELSE "k_thrown"
  /\ error' = IF pc' = "k_thrown" THEN "Could not submit contact details." ELSE error
  /\ UNCHANGED <<queueVars, clickVars, pageVars, bookVars, envVars, keepOpen, i, isLast, added,
                 booked, calls, exitCode, contextClosed, browserClosed>>

\* if (payload.appointment_date) await selectDate(page, payload.appointment_date);
\* selectDate warns when its tryClick returns false
KSelectDate ==
  /\ pc = "k_date"
  /\ IF Truthy(payload["appointment_date"])
       THEN \E ok \in ClickResults(RoleText) : KStep("calendar-day", ok)
       ELSE trace' = trace
  /\ pc' = "k_time"
  /\ UNCHANGED <<queueVars, clickVars, pageVars, bookVars, envVars, keepOpen, i, isLast, added,
                 booked, calls, error, exitCode, contextClosed, browserClosed>>

\* if (payload.time_frame_start) await selectTimeFrame(page, payload.time_frame_start);
\* selectTimeFrame warns when its tryClick returns false
KSelectTimeFrame ==
  /\ pc = "k_time"
  /\ IF Truthy(payload["time_frame_start"])
       THEN \E ok \in ClickResults(RoleText) : KStep("timeframe", ok)
       ELSE trace' = trace
  /\ pc' = "k_next"
  /\ UNCHANGED <<queueVars, clickVars, pageVars, bookVars, envVars, keepOpen, i, isLast, added,
                 booked, calls, error, exitCode, contextClosed, browserClosed>>

\* await tryClick(page, [{ role: 'button', name: /^next$/i }, { text: /^next$/i }], 'schedule-next')
KScheduleNext ==
  /\ pc = "k_next"
  /\ \E clickedNext \in ClickResults(RoleText) :
       /\ KStep("schedule-next", clickedNext)
       /\ pc' = AfterScheduleNext(clickedNext)
  /\ error' = IF pc' = "k_thrown" THEN "schedule-next" ELSE error
  /\ UNCHANGED <<queueVars, clickVars, pageVars, bookVars, envVars, keepOpen, i, isLast, added,
                 booked, calls, exitCode, contextClosed, browserClosed>>

\* try { await clickBookAppointmentButtonWithFallbacks(page) } catch (error)
\* { ...; throw new Error(`Final booking failed: ...`) }
KFinalBook ==
  /\ pc = "k_final"
  /\ \E result \in {"returned", "thrown"} :
       /\ KStep("final-book", result)
       /\ pc' = IF result = "returned" THEN "k_verify" ELSE "k_thrown"
  /\ error' = IF pc' = "k_thrown" THEN "Final booking failed" ELSE error
  /\ UNCHANGED <<queueVars, clickVars, pageVars, bookVars, envVars, keepOpen, i, isLast, added,
                 booked, calls, exitCode, contextClosed, browserClosed>>

\* await verifySuccess(page)
KVerifySuccess ==
  /\ pc = "k_verify"
  /\ \E successFound \in SuccessFound, inspection \in {"true", "false", "throws"} :
       KStep("verify", verifySuccess(successFound, inspection))
  /\ pc' = "k_done"
  /\ UNCHANGED <<queueVars, clickVars, pageVars, bookVars, envVars, keepOpen, i, isLast, added,
                 booked, calls, error, exitCode, contextClosed, browserClosed>>

KNext ==
  \/ KFillContactDetails \/ KSubmitContact \/ KSelectDate \/ KSelectTimeFrame
  \/ KScheduleNext \/ KFinalBook \/ KVerifySuccess

SpecCheckout == KInit /\ [][KNext]_vars

OrderIndex(tag) == CHOOSE k \in 1..Len(CheckoutOrder) : CheckoutOrder[k] = tag
Stepped(tag) == \E k \in 1..Len(trace) : trace[k][2] = tag
\* The payload has the value: it is there and is not empty.
Has(key) == payload[key] \notin {Undef, Null, Str(<<>>)}

\* C34: on the last task the checkout steps come in the order contact fill,
\* submit, date, time window, schedule Next, final confirmation,
\* verification, one after the other; date and time selection are left out
\* only when the payload has no appointment_date / time_frame_start; a
\* failed date, time or Next click does not stop the steps after it.
C34_CheckoutOrder ==
  /\ \A a \in 1..Len(trace) : \A b \in 1..Len(trace) :
       a < b => OrderIndex(trace[a][2]) < OrderIndex(trace[b][2])
  /\ pc \in {"k_time", "k_next", "k_final", "k_verify", "k_done"} =>
       /\ Stepped("contact-fill") /\ Stepped("contacts-submit")
       /\ Stepped("calendar-day") <=> Has("appointment_date")
  /\ pc \in {"k_next", "k_final", "k_verify", "k_done"} =>
       (Stepped("timeframe") <=> Has("time_frame_start"))
  /\ pc \in {"k_final", "k_verify", "k_done"} => Stepped("schedule-next")
  /\ pc \in {"k_verify", "k_done"} => Stepped("final-book")
  /\ pc = "k_done" => Stepped("verify")
  /\ pc = "k_thrown" =>
       trace[Len(trace)] \in {<<1, "contact-fill", "thrown">>, <<1, "contacts-submit", "false">>,
                              <<1, "final-book", "thrown">>}

\* Verification has run after the date click, the time click and the Next
\* click all failed.
C34_Witness ==
  /\ pc = "k_done" /\ Len(trace) = Len(CheckoutOrder)
  /\ trace[3] = <<1, "calendar-day", "false">>
  /\ trace[4] = <<1, "timeframe", "false">>
  /\ trace[5] = <<1, "schedule-next", "false">>

(***************************************************************************)
(* checkClickSuccess and the loop of clickBookAppointmentButtonWithFallbacks *)
(* that calls it.                                                          *)
(***************************************************************************)
Urls == {Str(<<"/", "s">>), Str(<<"/", "t">>)}
\* The 'Book my appointment' button as document.querySelectorAll finds it.
BookButtons == {"absent", "enabled", "disabled"}

\* The page as the evaluate of checkClickSuccess sees it.  before is the URL
\* the page had when the strategy began; initialUrl is window.initialUrl,
\* which no script of the repository assigns: it is undefined on every page.
ClickPages ==
  [before : Urls, href : Urls, initialUrl : {Undef}, spinner : BOOLEAN, modal : BOOLEAN,
   button : BookButtons, thankYou : BOOLEAN, firstNode : BOOLEAN, closed : BOOLEAN]

\* The page a strategy starts on: nothing has happened yet.
PageBefore(url) ==
  [before |-> url, href |-> url, initialUrl |-> Undef, spinner |-> FALSE, modal |-> FALSE,
   button |-> "enabled", thankYou |-> FALSE, firstNode |-> TRUE, closed |-> FALSE]

\* The evaluate of checkClickSuccess throws: the page is gone, or
\* document.querySelector('h1, h2, ...') is null when hasThankYou comes to it.
EvaluateThrows(p) == p.closed \/ (~p.thankYou /\ ~p.firstNode)

\* checkClickSuccess(page)
checkClickSuccess(p) ==
  IF EvaluateThrows(p) THEN FALSE                 \* catch (error) { ...; return false }
  ELSE LET hasLoadingSpinner == p.spinner
           urlChanged == p.href # p.initialUrl    \* window.location.href !== window.initialUrl
           hasSuccessModal == p.modal
           buttonDisabled == p.button = "disabled"
           hasThankYou == p.thankYou
       IN hasLoadingSpinner \/ urlChanged \/ hasSuccessModal \/ buttonDisabled \/ hasThankYou

SCInit ==
  /\ QueueIdle /\ ClickIdle /\ RunStart /\ EnvIdle /\ keepOpen = FALSE
  /\ \E url \in Urls : page = PageBefore(url)
  /\ clicked = 0 /\ dt = NullDate
  /\ pc = "s_loop"

\* for (const strategy of strategies) { try { strategyIndex++; await
\* strategy(); await page.waitForTimeout(1500); ... } catch (error) { ... } }
SCStrategy ==
  /\ pc = "s_loop" /\ strategyIndex < NumStrategies
  /\ strategyIndex' = strategyIndex + 1
  /\ \/ /\ pc' = "s_loop" /\ page' = page        \* the strategy throws
     \/ /\ pc' = "s_check"
        /\ page' \in {p \in ClickPages : p.before = page.href}
  /\ UNCHANGED <<queueVars, clickVars, clicked, dt, strategyUsed, envVars, keepOpen, i, isLast,
                 added, booked, calls, trace, error, exitCode, contextClosed, browserClosed>>

\* const success = await checkClickSuccess(page); if (success) { ...; return
\* { success: true, strategyUsed: strategyIndex, ... } } else the next strategy
SCCheck ==
  /\ pc = "s_check"
  /\ IF checkClickSuccess(page)
       THEN strategyUsed' = strategyIndex /\ pc' = "s_returned" /\ page' = page
       ELSE strategyUsed' = strategyUsed /\ pc' = "s_loop"
            /\ page' = [page EXCEPT !.before = page.href]
  /\ UNCHANGED <<queueVars, clickVars, clicked, dt, strategyIndex, envVars, keepOpen, i, isLast,
                 added, booked, calls, trace, error, exitCode, contextClosed, browserClosed>>

\* throw new Error(`All ${strategies.length} strategies failed. ...`)
SCAllFailed ==
  /\ pc = "s_loop" /\ strategyIndex = NumStrategies
  /\ pc' = "s_thrown"
  /\ error' = "All strategies failed"
  /\ UNCHANGED <<queueVars, clickVars, pageVars, bookVars, envVars, keepOpen, i, isLast,
                 added, booked, calls, trace, exitCode, contextClosed, browserClosed>>

SCNext == SCStrategy \/ SCCheck \/ SCAllFailed

SpecSuccess == SCInit /\ [][SCNext]_vars

\* Something can be seen to have happened since the strategy began.
Effect(p) ==
  \/ p.href # p.before
  \/ p.spinner \/ p.modal \/ p.thankYou
  \/ p.button = "disabled"

\* C35: a strategy is reported as successful only if an effect was seen
\* after it ran (the URL differs from the one before the click, a loading
\* indicator, a success node, the book button disabled); on a page the
\* strategy left unchanged the check is false and the next strategy is tried.
C35_SuccessOnlyWithEffect ==
  /\ pc = "s_returned" => Effect(page)
  /\ (pc = "s_check" /\ ~Effect(page)) => ~checkClickSuccess(page)

\* The check is false only when its evaluate throws: on every page it can
\* read it is true, changed or not.
C35_FalseOnlyWhenEvaluateThrows ==
  /\ (pc = "s_check" /\ ~EvaluateThrows(page)) => checkClickSuccess(page)
  /\ pc = "s_returned" => ~EvaluateThrows(page)

(***************************************************************************)
(* verifySuccess: the Promise.race of the indicator waits.                 *)
(***************************************************************************)
\* The promises of the race in the order of the array, with the timeout of
\* each wait in ms; the last is page.waitForTimeout(20000).
RaceTags == <<"thank-you", "booking-successful", "confirmation", "email-confirmation",
              "title-change", "url-change", "timeout">>
RaceTimeouts == <<15000, 15000, 10000, 10000, 10000, 10000, 20000>>
Indicators == 1..(Len(RaceTags) - 1)

\* The bounded wait of the race, and the shortest timeout in it.
RaceBound == RaceTimeouts[Len(RaceTimeouts)]
FirstTimeout ==
  CHOOSE t \in {RaceTimeouts[k] : k \in 1..Len(RaceTimeouts)} :
    \A k \in 1..Len(RaceTimeouts) : t <= RaceTimeouts[k]

\* When an indicator becomes observable, in ms from the start of the race;
\* Never, later than every timeout, for one that does not.
Never == RaceBound + 1
AppearTimes == {7500, 12500, 17500, Never}

\* When a promise of the race settles, and how: a wait is fulfilled when its
\* indicator shows before its timeout and rejected at the timeout otherwise;
\* waitForTimeout is fulfilled at its time.
SettleTime(appear, k) ==
  IF k \in Indicators /\ appear[k] < RaceTimeouts[k] THEN appear[k] ELSE RaceTimeouts[k]
Fulfilled(appear, k) == k \notin Indicators \/ appear[k] < RaceTimeouts[k]

\* Promise.race settles as the first of its promises to settle does (the one
\* earlier in the array when two settle at the same time).
RaceWinner(appear) ==
  CHOOSE k \in 1..Len(RaceTags) :
    \A j \in 1..Len(RaceTags) :
      \/ SettleTime(appear, k) < SettleTime(appear, j)
      \/ (SettleTime(appear, k) = SettleTime(appear, j) /\ k <= j)

\* await Promise.race([...]).catch(() => 'none')
RaceResult(appear) ==
  LET k == RaceWinner(appear)
  IN IF Fulfilled(appear, k) THEN RaceTags[k] ELSE "none"

VInit ==
  /\ QueueIdle /\ RunStart /\ PageIdle /\ EnvIdle /\ keepOpen = FALSE
  /\ variants \in [Indicators -> AppearTimes]
  /\ vi = 0 /\ tc = TcStart
  /\ pc = "v_race"

\* const successFound = await Promise.race([...]).catch(() => 'none');
\* if (successFound !== 'none' && successFound !== 'timeout') return true;
VRace ==
  /\ pc = "v_race"
  /\ now' = SettleTime(variants, RaceWinner(variants))
  /\ trace' = Append(trace, <<0, "race", RaceResult(variants)>>)
  /\ IF RaceResult(variants) \notin {"none", "timeout"}
       THEN verified' = verifySuccess(RaceResult(variants), "true") /\ pc' = "v_returned"
       ELSE verified' = verified /\ pc' = "v_inspect"
  /\ UNCHANGED <<queueVars, clickVars, pageVars, bookVars, srvVars, script, session, active, ret,
                 keepOpen, i, isLast, added, booked, calls, error, exitCode, contextClosed,
                 browserClosed>>

\* page.url(), page.title(), page.evaluate(...); return false - also from
\* the catch when one of them throws
VInspect ==
  /\ pc = "v_inspect"
  /\ \E inspection \in {"true", "throws"} :
       /\ verified' = verifySuccess(trace[Len(trace)][3], inspection)
       /\ trace' = Append(trace, <<0, "inspect", inspection>>)
  /\ pc' = "v_returned"
  /\ UNCHANGED <<queueVars, clickVars, pageVars, bookVars, srvVars, script, session, active, ret,
                 now, keepOpen, i, isLast, added, booked, calls, error, exitCode, contextClosed,
                 browserClosed>>

VNext == VRace \/ VInspect

SpecVerify == VInit /\ [][VNext]_vars

\* The indicators that become observable before their own timeout.
InTime == {k \in Indicators : variants[k] < RaceTimeouts[k]}

\* C36: verifySuccess returns true whenever an indicator becomes observable
\* before its own timeout, even if other indicators time out earlier; it
\* returns false only when none did; it ends within the bounded wait.
C36_TrueWhenAnyIndicatorInTime ==
  /\ pc = "v_returned" => (verified = "true" <=> InTime # {})
  /\ now <= RaceBound

\* What the race does: verifySuccess returns true exactly when an indicator
\* shows before the shortest of the timeouts, and the race is over by then.
C36_TrueBeforeFirstTimeout ==
  /\ pc = "v_returned" => (verified = "true" <=> \E k \in Indicators : variants[k] < FirstTimeout)
  /\ now <= FirstTimeout


(***************************************************************************)
(* selectArrivalWindowByStart of arrival-window-patch.mjs step by step:    *)
(* the slot click, the wait for the Next control, the polling of its       *)
(* enabled state and the Next click.  now is Date.now() - (deadline - 7000),*)
(* vi counts the isDisabled() calls, trace lists the clicks.               *)
(***************************************************************************)
\* const deadline = Date.now() + 7000
PollWindow == 7000
\* await page.waitForTimeout(150)
PollSleep == 150
\* What nextBtn.isDisabled() can do.
DisabledOutcomes == {"true", "false", "throws"}

\* A loop that polls on after the control is enabled.
PollNeverBreaks(outcome) == FALSE

\* if (!(await nextBtn.isDisabled().catch(() => true))) break
PollBreaks(outcome) == outcome = "false"

\* The pages of the step: at most two buttons.
ArrivalPages == {pg \in SlotPages : Len(pg) <= 2}

AWInit ==
  /\ \E r \in TimeRequests :
       payload = [EmptyPayload EXCEPT !["time_frame_start"] = Str(r.text)]
  /\ page \in ArrivalPages
  /\ clicked = 0 /\ dt = NullDate
  /\ queue = <<>>
  /\ pc = "aw_slot"
  /\ ClickIdle
  /\ keepOpen = FALSE
  /\ RunStart
  /\ EnvIdle

\* Lines 25-70: the start key, the loop over the buttons, the fallback,
\* and the throw when nothing was clicked.
AWSlot ==
  /\ pc = "aw_slot"
  /\ LET wantKey == startKeyFromTimeString(startTimeStr)
         inLoop == ArrivalWindowMatches(wantKey, page)
         inFallback == ArrivalWindowFallback(wantKey, page)
         Click(k) ==
           \/ /\ clicked' = k /\ error' = ""
              /\ trace' = Append(trace, <<0, "slot">>)
              /\ pc' = "aw_waitfor"
           \/ /\ clicked' = 0 /\ error' = "click"          \* btn.click throws
              /\ trace' = trace
              /\ pc' = "aw_thrown"
         Raise(msg) == /\ clicked' = 0 /\ error' = msg /\ trace' = trace
                       /\ pc' = "aw_thrown"
     IN IF wantKey.null THEN Raise("[time] Invalid time_frame_start")
        ELSE IF inLoop # {} THEN Click(First(inLoop))
        ELSE IF inFallback # {} THEN Click(First(inFallback))
        ELSE Raise("Could not find a time slot")
  /\ UNCHANGED <<queueVars, envVars, clickVars, bookVars, keepOpen, i, isLast, added, booked,
                 calls, exitCode, contextClosed, browserClosed, page, dt>>

\* await nextBtn.waitFor({ timeout: 8000 }); const deadline = Date.now() + 7000
AWWaitFor ==
  /\ pc = "aw_waitfor"
  /\ \/ pc' = "aw_poll" /\ error' = error
     \/ pc' = "aw_thrown" /\ error' = "waitFor"
  /\ UNCHANGED <<queueVars, envVars, clickVars, pageVars, bookVars, keepOpen, i, isLast, added,
                 booked, calls, trace, exitCode, contextClosed, browserClosed>>

\* One round of while (Date.now() < deadline): the isDisabled() call, then
\* the break or the sleep.
AWPoll ==
  /\ pc = "aw_poll"
  /\ now < PollWindow
  /\ vi' = vi + 1
  /\ \E outcome \in DisabledOutcomes :
       IF PollBreaks(outcome)
       THEN /\ pc' = "aw_next" /\ now' = now
            /\ trace' = Append(trace, <<0, "enabled">>)
       ELSE /\ pc' = "aw_poll"
            /\ trace' = IF outcome = "false" THEN Append(trace, <<0, "enabled">>) ELSE trace
            /\ now' = now + PollSleep
  /\ UNCHANGED <<queueVars, pageVars, bookVars, srvVars, script, session, active, ret, verified,
                 variants, tc, keepOpen, i, isLast, added, booked, calls, error, exitCode,
                 contextClosed, browserClosed>>

\* The while test fails: the deadline has passed
AWDeadline ==
  /\ pc = "aw_poll"
  /\ ~(now < PollWindow)
  /\ pc' = "aw_next"
  /\ UNCHANGED <<queueVars, envVars, clickVars, pageVars, bookVars, keepOpen, i, isLast, added,
                 booked, calls, trace, error, exitCode, contextClosed, browserClosed>>

\* await nextBtn.click({ timeout: 5000 })
AWClickNext ==
  /\ pc = "aw_next"
  /\ trace' = Append(trace, <<0, "next">>)
  /\ \/ pc' = "aw_returned" /\ error' = error
     \/ pc' = "aw_thrown" /\ error' = "next"
  /\ UNCHANGED <<queueVars, envVars, clickVars, pageVars, bookVars, keepOpen, i, isLast, added,
                 booked, calls, exitCode, contextClosed, browserClosed>>

AWNext == AWSlot \/ AWWaitFor \/ AWPoll \/ AWDeadline \/ AWClickNext
\* Every await of the polling loop settles: isDisabled() answers or
\* rejects, and waitForTimeout ends.
SpecArrival == AWInit /\ [][AWNext]_vars /\ WF_vars(AWPoll \/ AWDeadline)

Did(tag) == \E k \in 1..Len(trace) : trace[k] = <<0, tag>>
\* The rounds the loop can make before the deadline, and one more.
MaxPolls == (PollWindow \div PollSleep) + 1

\* C37: in selectArrivalWindowByStart the Next control is clicked only after
\* a slot click has succeeded; when no slot matches the requested start the
\* function raises and never clicks Next; after a slot click it polls the
\* enabled state of Next for a bounded time, stops polling as soon as the
\* control is enabled, and the polling loop always terminates.
C37_NextOnlyAfterSlot ==
  /\ [](/\ Did("next") => (Did("slot") /\ clicked # 0)
        /\ vi > 0 => Did("slot")
        /\ (ArrivalWindowMatches(startKeyFromTimeString(startTimeStr), page) = {}
            /\ ArrivalWindowFallback(startKeyFromTimeString(startTimeStr), page) = {}
            /\ pc # "aw_slot")
             => (pc = "aw_thrown" /\ error # "" /\ ~Did("next") /\ vi = 0)
        /\ vi <= MaxPolls /\ (pc = "aw_poll" => now < PollWindow + PollSleep))
  /\ [][Did("enabled") => vi' = vi]_vars
  /\ (pc = "aw_poll") ~> (pc = "aw_next")

\* C37 witness: the slot was clicked, Next was found disabled twice and
\* enabled at the third poll, and was then clicked.
C37_Witness ==
  /\ pc = "aw_returned" /\ clicked # 0
  /\ vi = 3 /\ Did("enabled") /\ Did("next")
  /\ now >= 2 * PollSleep

(***************************************************************************)
(* selectDate of playwright_script-almost.mjs step by step: the parse, the *)
(* first lookup of the day, the paging loop and the click.  i is the       *)
(* index of the paging loop, tc.target the form of the locator target      *)
(* holds, tc.moved the last value of moved.                                *)
(***************************************************************************)
\* for (let i = 0; (await target.count()) === 0 && i < 6; i++)
PagingLimit == 6
\* The requests of the step: two dates, a string that is no date, and one
\* whose parts are not numbers.
PagingDateStrings ==
  {WrittenSlash(<<2025, 9, 5>>), WrittenDash(<<2024, 2, 29>>),
   <<"t", "o", "m", "o", "r", "r", "o", "w">>,
   <<"a", "b", "/", "c", "d", "/", "e", "f", "g", "h">>}
\* A day-card of the calendar, inside a button or not.
PagingLabels ==
  {[text |-> l.text, day |-> l.day, inButton |-> b] : l \in DayLabels, b \in BOOLEAN}
PagingPages ==
  {pg \in UNION {[1..n -> PagingLabels] : n \in 0..MaxDays} :
     \A a, b \in DOMAIN pg : a # b => pg[a].text # pg[b].text}

\* page.locator('button').filter({ has: day-card }).filter({ hasText: dayRe })
ButtonMatches(date, labels) == {k \in DayMatches(date, labels) : labels[k].inButton}
\* The elements target stands for on the page shown: the button form, or
\* the day-card (or its button ancestor) of the fallback.
TargetMatches(form, date, labels) ==
  IF form = "button" THEN ButtonMatches(date, labels) ELSE DayMatches(date, labels)

\* What the calendar can show after a 'next' click: one day-card at most.
NextPages == {pg \in PagingPages : Len(pg) <= 1}

\* What the page does to the candidates of 'cal-next' and of 'cal-next2'.
CalNextVariants == {<<Cand("role", "one", c)>> : c \in {"ok", "fails"}}
CalNext2Variants ==
  {<<Cand("string", "zero", "fails"), Cand("string", "one", c)>> : c \in {"ok", "fails"}}

\* A loop without the bound on i.
PagesOnUnbounded(count, idx) == count = 0

\* (await target.count()) === 0 && i < 6
PagesOn(count, idx) == count = 0 /\ idx < PagingLimit

PGInit ==
  /\ \E str \in PagingDateStrings :
       payload = [EmptyPayload EXCEPT !["appointment_date"] = Str(str)]
  /\ page \in PagingPages
  /\ clicked = 0 /\ dt = NullDate
  /\ queue = <<>>
  /\ pc = "pg_init"
  /\ ClickIdle
  /\ keepOpen = FALSE
  /\ RunStart
  /\ EnvIdle

\* const dt = parseMMDDYYYY(dateStr); if (!dt) { warn(...); return false; }
PGParse ==
  /\ pc = "pg_init"
  /\ dt' = parseMMDDYYYY(dateStr)
  /\ IF dt'.null THEN ret' = "false" /\ pc' = "pg_returned"
     ELSE ret' = ret /\ pc' = "pg_target"
  /\ UNCHANGED <<queueVars, clickVars, runVars, bookVars, srvVars, script, session, active,
                 verified, now, page, clicked>>

\* let target = <button form>; if ((await target.count()) === 0) { <card form> }
PGTarget ==
  /\ pc = "pg_target"
  /\ tc' = [target |-> IF ButtonMatches(dt, page) = {} /\ DayMatches(dt, page) # {}
                       THEN "card" ELSE "button",
            moved |-> "unset"]
  /\ pc' = "pg_loop"
  /\ UNCHANGED <<queueVars, envVars, pageVars, runVars, variants, vi>>

\* One round of the loop: moved = tryClick(cal-next) || tryClick(cal-next2);
\* if (!moved) break; waitForTimeout(200); target = <button form>
PGPage ==
  /\ pc = "pg_loop"
  /\ PagesOn(Cardinality(TargetMatches(tc.target, dt, page)), i)
  /\ \E v1 \in CalNextVariants, v2 \in CalNext2Variants :
       LET moved == tryClick(v1).ret = "true" \/ tryClick(v2).ret = "true"
       IN /\ variants' = IF tryClick(v1).ret = "true" THEN v1 ELSE v2
          /\ IF moved
             THEN /\ trace' = Append(trace, <<0, "cal-next">>)
                  /\ page' \in NextPages
                  /\ tc' = [target |-> "button", moved |-> "true"]
                  /\ i' = i + 1
                  /\ pc' = "pg_loop"
             ELSE /\ trace' = trace /\ page' = page /\ i' = i
                  /\ tc' = [tc EXCEPT !.moved = "false"]
                  /\ pc' = "pg_after"
  /\ UNCHANGED <<queueVars, envVars, bookVars, vi, keepOpen, isLast, added, booked, calls,
                 error, exitCode, contextClosed, browserClosed, clicked, dt>>

\* The loop test fails
PGLoopExit ==
  /\ pc = "pg_loop"
  /\ ~PagesOn(Cardinality(TargetMatches(tc.target, dt, page)), i)
  /\ pc' = "pg_after"
  /\ UNCHANGED <<queueVars, envVars, clickVars, pageVars, runVars>>

\* if ((await target.count()) === 0) { warn(...); return false; } and the
\* click, with its fallback to the mouse and its throw.
PGPick ==
  /\ pc = "pg_after"
  /\ LET found == TargetMatches(tc.target, dt, page)
     IN IF found = {}
        THEN clicked' = 0 /\ ret' = "false" /\ error' = error /\ pc' = "pg_returned"
        ELSE \/ /\ clicked' = First(found) /\ ret' = "true" /\ error' = error
                /\ pc' = "pg_returned"
             \/ /\ clicked' = 0 /\ ret' = ret
                /\ error' = "Could not click date target."
                /\ pc' = "pg_thrown"
  /\ UNCHANGED <<queueVars, clickVars, bookVars, srvVars, script, session, active, verified, now,
                 keepOpen, i, isLast, added, booked, calls, trace, exitCode, contextClosed,
                 browserClosed, page, dt>>

PGNext == PGParse \/ PGTarget \/ PGPage \/ PGLoopExit \/ PGPick
\* Every await of the loop and of the click settles.
SpecPaging == PGInit /\ [][PGNext]_vars /\ WF_vars(PGPage \/ PGLoopExit \/ PGPick)

NextClicks == Cardinality({k \in 1..Len(trace) : trace[k] = <<0, "cal-next">>})
PagingDone == pc \in {"pg_returned", "pg_thrown"}
\* The day looked for is on the page shown, in the form target stands for.
DayFound == /\ ~dt.null
            /\ pc \in {"pg_loop", "pg_after", "pg_returned", "pg_thrown"}
            /\ TargetMatches(tc.target, dt, page) # {}

\* C38: when the requested day is not rendered, selectDate pages forward
\* with at most 6 'next' clicks, stops paging as soon as the day is found or
\* a 'next' click fails, and always terminates; when the day is never found
\* it clicks no calendar day and returns false without raising.
C38_PagingBounded ==
  /\ [](/\ NextClicks = i /\ i <= PagingLimit
        /\ (PagingDone /\ ~DayFound) =>
             (clicked = 0 /\ ret = "false" /\ error = "" /\ pc = "pg_returned")
        /\ clicked # 0 => (DayFound /\ clicked \in DayMatches(dt, page)))
  /\ [][i' # i => (~DayFound /\ tc.moved # "false" /\ i' = i + 1)]_vars
  /\ (pc = "pg_loop") ~> PagingDone

\* C38 witness: the day was not rendered, six 'next' clicks did not bring
\* it up, and selectDate returned false with no day clicked.
C38_Witness ==
  /\ pc = "pg_returned" /\ ~dt.null
  /\ i = PagingLimit /\ NextClicks = PagingLimit
  /\ ret = "false" /\ clicked = 0 /\ error = ""

(***************************************************************************)
(* The loop of main over a queue of two tasks, with the steps of each      *)
(* task on the service menu: the wait for the menu, the service click,     *)
(* the rest of the driver up to the branch of finalizeThisService, and     *)
(* for a task that is not the last the Back and 'Add more services'        *)
(* clicks.  trace lists <<task, step, result>>.                            *)
(***************************************************************************)
\* The queues of the runs: one task or two.
TaskQueues == UNION {[1..n -> DriverTasks] : n \in 1..2}

\* A clickService that goes on to the service click whether or not the
\* menu was detected.
AfterMenuWaitSoft(detected) == "t_tile"

\* await waitForMainMenu(page): it returns true or throws
AfterMenuWait(detected) == IF detected = "true" THEN "t_tile" ELSE "t_catch"

TKInit ==
  /\ queue \in TaskQueues
  /\ payload = EmptyPayload
  /\ pc = "t_loop"
  /\ ClickIdle
  /\ keepOpen = FALSE
  /\ RunStart
  /\ PageIdle
  /\ EnvIdle

\* for (let i = 0; i < queue.length; i++) { const meta = { isLast: ... }; the dispatch
TKLoop ==
  /\ pc = "t_loop"
  /\ IF i < Len(queue)
     THEN /\ isLast' = IsLastOf(i, queue)
          /\ calls' = Append(calls, [task |-> i + 1, type |-> Item.type,
                                     isLast |-> IsLastOf(i, queue)])
          /\ pc' = "t_menu"
     ELSE pc' = "t_done" /\ UNCHANGED <<isLast, calls>>
  /\ UNCHANGED <<queueVars, clickVars, pageVars, bookVars, envVars, keepOpen, i, added, booked,
                 trace, error, exitCode, contextClosed, browserClosed>>

\* clickService: await waitForMainMenu(page)
TKWaitForMainMenu ==
  /\ pc = "t_menu"
  /\ \E detected \in {"true", "thrown"} :
       /\ trace' = Append(trace, <<i + 1, "main-menu", detected>>)
       /\ pc' = AfterMenuWait(detected)
       /\ error' = IF detected = "true" THEN error ELSE "Service menu did not render."
  /\ UNCHANGED <<queueVars, clickVars, pageVars, bookVars, envVars, keepOpen, i, isLast, added,
                 booked, calls, exitCode, contextClosed, browserClosed>>

\* clickService: the loop over the candidates and the throw after it
TKClickService ==
  /\ pc = "t_tile"
  /\ \E r \in ClickResults(ServiceTileShapes) :
       /\ trace' = Append(trace, <<i + 1, "service", r>>)
       /\ IF r = "true" THEN pc' = "t_driver" /\ error' = error
          ELSE pc' = "t_catch" /\ error' = "Service button not found"
  /\ UNCHANGED <<queueVars, clickVars, pageVars, bookVars, envVars, keepOpen, i, isLast, added,
                 booked, calls, exitCode, contextClosed, browserClosed>>

\* The driver after the service click, and finalizeThisService up to if
\* (!isLast): they get there or throw; the last task goes on to the checkout,
\* which returns or throws.
TKDriver ==
  /\ pc = "t_driver"
  /\ \/ /\ pc' = IF isLast THEN "t_after" ELSE "t_back"
        /\ error' = error
     \/ pc' = "t_catch" /\ error' = "driver"
  /\ UNCHANGED <<queueVars, clickVars, pageVars, bookVars, envVars, keepOpen, i, isLast, added,
                 booked, calls, trace, exitCode, contextClosed, browserClosed>>

\* finalizeThisService, not last: const back = tryClick || tryClick || goBack
TKContactsBack ==
  /\ pc = "t_back"
  /\ \E r1 \in ClickResults(RoleText), r2 \in ClickResults(RoleOnly), r3 \in PromiseResults :
       trace' = Append(trace, <<i + 1, "contacts-back", OrElse(r1, OrElse(r2, r3))>>)
  /\ pc' = "t_more"
  /\ UNCHANGED <<queueVars, clickVars, pageVars, bookVars, envVars, keepOpen, i, isLast, added,
                 booked, calls, error, exitCode, contextClosed, browserClosed>>

\* finalizeThisService, not last: const more = tryClick || tryClick; return
TKAddMoreServices ==
  /\ pc = "t_more"
  /\ \E r1 \in ClickResults(RoleText), r2 \in ClickResults(RoleOnly) :
       trace' = Append(trace, <<i + 1, "add-more", OrElse(r1, r2)>>)
  /\ pc' = "t_after"
  /\ UNCHANGED <<queueVars, clickVars, pageVars, bookVars, envVars, keepOpen, i, isLast, added,
                 booked, calls, error, exitCode, contextClosed, browserClosed>>

\* main: the driver has returned: waitIdle, randomDelay, i++
TKAfterTask ==
  /\ pc = "t_after"
  /\ i' = i + 1
  /\ pc' = "t_loop"
  /\ UNCHANGED <<queueVars, clickVars, pageVars, bookVars, envVars, keepOpen, isLast, added,
                 booked, calls, trace, error, exitCode, contextClosed, browserClosed>>

\* main: catch (e) { ...; process.exitCode = 1 }
TKCatch ==
  /\ pc = "t_catch"
  /\ exitCode' = 1
  /\ pc' = "t_done"
  /\ UNCHANGED <<queueVars, clickVars, pageVars, bookVars, envVars, keepOpen, i, isLast, added,
                 booked, calls, trace, error, contextClosed, browserClosed>>

TKNext ==
  \/ TKLoop \/ TKWaitForMainMenu \/ TKClickService \/ TKDriver
  \/ TKContactsBack \/ TKAddMoreServices \/ TKAfterTask \/ TKCatch
SpecTasks == TKInit /\ [][TKNext]_vars

\* The positions of trace where task t made step tag.
StepsAt(t, tag) == {k \in 1..Len(trace) : trace[k][1] = t /\ trace[k][2] = tag}
\* The menu was detected in task t before position k.
MenuDetectedBefore(t, k) ==
  \E j \in StepsAt(t, "main-menu") : j < k /\ trace[j][3] = "true"
\* Back and 'Add more services' have both failed in task t.
BothFailed(t) ==
  /\ \E k \in StepsAt(t, "contacts-back") : trace[k][3] = "false"
  /\ \E k \in StepsAt(t, "add-more") : trace[k][3] = "false"

\* C39: in every task, no service-tile click is attempted before the
\* main-menu detection has succeeded within that same task; after a task
\* that is not the last and whose Back and 'Add more services' clicks both
\* failed, the next task either detects the main menu before it clicks its
\* service tile or the run fails with 'Service menu did not render.' and
\* clicks no tile.
C39_MenuBeforeTile ==
  /\ \A t \in 1..Len(queue) : \A k \in StepsAt(t, "service") : MenuDetectedBefore(t, k)
  /\ pc = "t_tile" => MenuDetectedBefore(i + 1, Len(trace) + 1)
  /\ \A t \in 1..(Len(queue) - 1) :
       (BothFailed(t) /\ StepsAt(t + 1, "main-menu") # {}) =>
         \/ /\ \E j \in StepsAt(t + 1, "main-menu") : trace[j][3] = "true"
            /\ error # "Service menu did not render."
         \/ /\ StepsAt(t + 1, "service") = {}
            /\ error = "Service menu did not render."
            /\ pc \in {"t_catch", "t_done"}
            /\ pc = "t_done" => exitCode = 1

\* C39 witness: Back and 'Add more services' both failed in the first
\* task, the menu was not detected in the second, and the run has failed
\* with 'Service menu did not render.' and no second service click.
C39_Witness ==
  /\ pc = "t_done" /\ Len(queue) = 2
  /\ BothFailed(1)
  /\ \E j \in StepsAt(2, "main-menu") : trace[j][3] = "thrown"
  /\ StepsAt(2, "service") = {}
  /\ error = "Service menu did not render." /\ exitCode = 1
====
